---- MODULE Spec2Model ----
(***************************************************************************)
(* Team generation of discord-teamgen: the randomized local-search         *)
(* optimizer (src/src/teamgen.ts), the TeamGenerationService that          *)
(* validates a roster and invokes it (src/src/services/permission.ts),     *)
(* and TournamentService.generateTeams, which maps the generated teams     *)
(* back to tournament players (src/src/services/tournament.ts).            *)
(*                                                                         *)
(* Numbers: a rating (ADR) is held in hundredths (50.00 is 5000), a run    *)
(* count in halves (1.5 runs is 3), so that the non-integers the code      *)
(* accepts are values of the model.  Math.random() returns k / grid for    *)
(* k in 0 .. grid-1; Math.floor(Math.random() * m) is (k * m) \div grid.   *)
(***************************************************************************)
EXTENDS Integers, Sequences, FiniteSets, TLC

VARIABLES
    entry,            \* the function the caller invoked
    pc,               \* position of the call
    callNo,           \* number of the call: 1 for the first call, 2 for the next one
    firstOutcome,     \* what call 1 returned or threw, as the caller keeps it
    players,          \* optimizeTeams: players argument (teamgen Player objects)
    teamSize,         \* optimizeTeams: teamSize argument
    maxNoImprovement, \* optimizeTeams: maxNoImprovement argument
    runs,             \* optimizeTeams: runs argument, in halves
    run,              \* optimizeTeams: loop variable of the run loop
    teams,            \* optimizeTeams: teams of the current run
    adrDiff,          \* optimizeTeams: spread of the current run
    noImprovement,    \* optimizeTeams: consecutive rejected swaps
    bestTeams,        \* optimizeTeams: best teams over the runs so far
    bestDiff,         \* optimizeTeams: best spread over the runs so far
    optResult,        \* value returned by optimizeTeams
    error,            \* the error thrown, NoError if none
    randUsed,         \* TRUE once Math.random() has been called in this call
    optInvoked,       \* TRUE once generateBalancedTeams has invoked optimizeTeams in this call
    firstDiff,        \* spread of the first run's round-robin assignment (history)
    runLog,           \* teams and spread at the end of each finished run (history)
    tplayers,         \* generateBalancedTeams: players argument (TournamentPlayer objects)
    cfg,              \* TeamGenerationService: defaultRuns, maxRuns (in halves), teamSize
    runsArg,          \* generateBalancedTeams: runs argument, a JS value
    svcResult,        \* value returned by generateBalancedTeams
    tournaments,      \* database: rows of tournaments
    tournamentPlayers,\* database: rows of tournament_players, in the order of their insertion
    playerTable,      \* database: rows of players
    matches,          \* database: rows of matches
    matchTeamPlayers, \* database: rows of match_team_players
    dbTeams,          \* database: rows of teams
    dbTeamPlayers,    \* database: rows of team_players
    tournament,       \* the tournament row a service method found or returns
    teamData,         \* createTeams: the teamData argument
    genResult,        \* value returned by generateTeams
    args,             \* arguments of the call made last on players, matches or team members
    result,           \* value that call returned
    procs,            \* the repository calls that overlap: position and locals of each
    adrLocks          \* players lockPlayerAdr locked, with no unlockPlayerAdr or admin
                      \* submission for them since (history)

callVars == <<entry, callNo, firstOutcome>>
optArgs == <<players, teamSize, maxNoImprovement, runs>>
optLocals == <<run, teams, adrDiff, noImprovement, bestTeams, bestDiff>>
svcVars == <<tplayers, cfg, runsArg, svcResult>>
dbVars == <<tournaments, tournamentPlayers, dbTeams, dbTeamPlayers>>
genVars == <<dbVars, tournament, teamData, genResult>>
\* state that team generation and the calls on tournaments and teams leave alone
restVars == <<playerTable, matches, matchTeamPlayers, args, result, procs, adrLocks>>
vars == <<callVars, pc, optArgs, optLocals, optResult, error, randUsed, optInvoked, firstDiff,
          runLog, svcVars, genVars, restVars>>

\* ---------------------------------------------------------------- bounds
MaxPlayers == 4
MaxNoImprove == 2
RunCap == 2
RepeatMaxPlayers == 3

\* ------------------------------------------------------------- JS values
Infinity == 1000000000
NoError == [name |-> "none", message |-> <<>>, code |-> ""]
NoArgs == [none |-> TRUE]
NoValue == [none |-> TRUE]
NoResult == [teams |-> <<>>, adrDiff |-> -1]
NoSvcResult == [teams |-> <<>>, adr_difference |-> -1, optimization_runs |-> -1]
\* a JS value: typeof and, for a number, its value
Undefined == [t |-> "undefined", v |-> 0]
Null == [t |-> "null", v |-> 0]
Str == [t |-> "string", v |-> 0]
Num(n) == [t |-> "number", v |-> n]

Min2(a, b) == IF a < b THEN a ELSE b
SetMax(S) == CHOOSE x \in S : \A y \in S : y <= x
SetMin(S) == CHOOSE x \in S : \A y \in S : x <= y
Range(s) == {s[i] : i \in DOMAIN s}

\* Math.floor(Math.random() * m), Math.random() = k / G
RandomIndex(k, m, G) == (k * m) \div G

\* [array[a], array[b]] = [array[b], array[a]] on 1-based positions
SwapAt(array, a, b) ==
    [x \in DOMAIN array |-> IF x = a THEN array[b] ELSE IF x = b THEN array[a] ELSE array[x]]

\* shuffle: Fisher-Yates from the last index down to 1 (0-based i), the draw
\* of step i being draws[i]
RECURSIVE ShuffleFrom(_, _, _, _)
ShuffleFrom(array, i, draws, G) ==
    IF i <= 0 THEN array
    ELSE ShuffleFrom(SwapAt(array, i + 1, RandomIndex(draws[i], i + 1, G) + 1), i - 1, draws, G)

shuffle(array, draws, G) == ShuffleFrom(array, Len(array) - 1, draws, G)

Draws(n, G) == [1 .. (n - 1) -> 0 .. (G - 1)]

\* what shuffle can make of the positions 1 .. n; shuffle moves the elements of any
\* array of length n the same way
ShuffleOutcomes(n, G) == {shuffle([x \in 1 .. n |-> x], draws, G) : draws \in Draws(n, G)}

\* Math.random at resolution G, with the outcomes of shuffle on arrays up to maxLen
RandomSource(G, maxLen) ==
    [grid |-> G, shuffles |-> [n \in 0 .. maxLen |-> ShuffleOutcomes(n, G)]]

\* team.players.reduce((sum, p) => sum + p.adr, 0)
RECURSIVE SumAdr(_)
SumAdr(ps) == IF ps = <<>> THEN 0 ELSE SumAdr(SubSeq(ps, 1, Len(ps) - 1)) + ps[Len(ps)].adr

\* Math.max(...totals) - Math.min(...totals)
Spread(ts) ==
    LET totals == {ts[t].totalAdr : t \in DOMAIN ts}
    IN  SetMax(totals) - SetMin(totals)

SelectIdx(s, numTeams, t) ==
    LET F[i \in 0 .. Len(s)] ==
            IF i = 0 THEN <<>>
            ELSE IF (i - 1) % numTeams = t THEN Append(F[i - 1], s[i]) ELSE F[i - 1]
    IN  F[Len(s)]

\* computeTeams placing players[i] on team i % teamSize
computeTeamsModTeamSize(ps, size) ==
    LET numTeams == Len(ps) \div size
        built == [t \in 1 .. numTeams |->
                    LET members == SelectIdx(ps, size, t - 1)
                    IN  [players |-> members, totalAdr |-> SumAdr(members)]]
    IN  [teams |-> built, adrDiff |-> Spread(built)]

\* PlacePlayer pushing the player without adding the rating to the total
PlacePlayerTotalKept(ts, t, player) ==
    [ts EXCEPT ![t] = [players |-> Append(ts[t].players, player), totalAdr |-> ts[t].totalAdr]]

\* lines 39-40: team.players.push(player); team.totalAdr += player.adr
PlacePlayer(ts, t, player) ==
    [ts EXCEPT ![t] = [players |-> Append(ts[t].players, player),
                       totalAdr |-> ts[t].totalAdr + player.adr]]

\* lines 34-41: the loop over the players from index i on (1-based here)
RECURSIVE PlaceFrom(_, _, _, _)
PlaceFrom(ts, ps, i, numTeams) ==
    IF i > Len(ps) THEN ts
    ELSE PlaceFrom(PlacePlayer(ts, ((i - 1) % numTeams) + 1, ps[i]), ps, i + 1, numTeams)

\* computeTeams: round-robin placement of players[i] on team i % numTeams
computeTeams(ps, size) ==
    LET numTeams == Len(ps) \div size
        built == PlaceFrom([t \in 1 .. numTeams |-> [players |-> <<>>, totalAdr |-> 0]],
                           ps, 1, numTeams)
    IN  [teams |-> built, adrDiff |-> Spread(built)]

\* run < runs, runs in halves
RunLt(r, h) == 2 * r < h

\* ------------------------------------------------------------- optimizer
\* optimizeTeams, lines 56-61: the divisibility check and the initial best
OptimizeTeamsEntry ==
    /\ pc = "opt_entry"
    /\ IF Len(players) % teamSize # 0
       THEN /\ pc' = "opt_threw"
            /\ error' = [name |-> "Error", code |-> "",
                         message |-> <<"Player count must be a multiple of ", ToString(teamSize)>>]
            /\ UNCHANGED <<bestTeams, bestDiff, run>>
       ELSE /\ pc' = "run_loop"
            /\ bestTeams' = <<>>
            /\ bestDiff' = Infinity
            /\ run' = 0
            /\ UNCHANGED error
    /\ UNCHANGED <<callVars, optArgs, teams, adrDiff, noImprovement, optResult, randUsed,
                   optInvoked, firstDiff, runLog, svcVars, genVars>>
    /\ UNCHANGED restVars

\* RunStart shuffling the players array itself instead of a copy
RunStartShuffleInPlace(rnd, runCap) ==
    /\ pc = "run_loop"
    /\ RunLt(run, runs) /\ run < runCap
    /\ \E order \in rnd.shuffles[Len(players)] :
          \E init \in {computeTeams([x \in DOMAIN players |-> players[order[x]]], teamSize)} :
              /\ players' = [x \in DOMAIN players |-> players[order[x]]]
              /\ teams' = init.teams
              /\ adrDiff' = init.adrDiff
              /\ firstDiff' = IF run = 0 THEN init.adrDiff ELSE firstDiff
    /\ noImprovement' = 0
    /\ randUsed' = (randUsed \/ Len(players) > 1)
    /\ pc' = "search"
    /\ UNCHANGED <<callVars, teamSize, maxNoImprovement, runs, run, bestTeams, bestDiff,
                   optResult, error, optInvoked, runLog, svcVars, genVars>>
    /\ UNCHANGED restVars

\* one iteration of the run loop up to the search loop, lines 63-69
RunStart(rnd, runCap) ==
    /\ pc = "run_loop"
    /\ RunLt(run, runs) /\ run < runCap
    /\ \E order \in rnd.shuffles[Len(players)] :
          \E init \in {computeTeams([x \in DOMAIN players |-> players[order[x]]], teamSize)} :
              /\ teams' = init.teams
              /\ adrDiff' = init.adrDiff
              /\ firstDiff' = IF run = 0 THEN init.adrDiff ELSE firstDiff
    /\ noImprovement' = 0
    /\ randUsed' = (randUsed \/ Len(players) > 1)
    /\ pc' = "search"
    /\ UNCHANGED <<callVars, optArgs, run, bestTeams, bestDiff, optResult, error, optInvoked,
                   runLog, svcVars, genVars>>
    /\ UNCHANGED restVars

\* lines 73-75: const [i, j] = shuffle([0 .. n-1]).slice(0, 2); NoIndex stands for
\* the undefined j of a one-element array
NoIndex == -1
TeamPairs(n, rnd) ==
    {<<order[1] - 1, IF n >= 2 THEN order[2] - 1 ELSE NoIndex>> : order \in rnd.shuffles[n]}

\* SwapPlayers writing only teamA.players[aIndex]
SwapPlayersOneSided(ts, i, aIndex, j, bIndex) ==
    LET newA == [ts[i].players EXCEPT ![aIndex] = ts[j].players[bIndex]]
    IN  [ts EXCEPT ![i] = [players |-> newA, totalAdr |-> SumAdr(newA)],
                   ![j] = [players |-> ts[j].players, totalAdr |-> SumAdr(ts[j].players)]]

\* SwapPlayers with the total of teamB left as it was before the swap
SwapPlayersStaleTotal(ts, i, aIndex, j, bIndex) ==
    LET newA == [ts[i].players EXCEPT ![aIndex] = ts[j].players[bIndex]]
        newB == [ts[j].players EXCEPT ![bIndex] = ts[i].players[aIndex]]
    IN  [ts EXCEPT ![i] = [players |-> newA, totalAdr |-> SumAdr(newA)],
                   ![j] = [players |-> newB, totalAdr |-> ts[j].totalAdr]]

\* lines 91-102: the swap of teamA.players[aIndex] and teamB.players[bIndex]
\* (1-based here) and the re-reduction of both totals
SwapPlayers(ts, i, aIndex, j, bIndex) ==
    LET newA == [ts[i].players EXCEPT ![aIndex] = ts[j].players[bIndex]]
        newB == [ts[j].players EXCEPT ![bIndex] = ts[i].players[aIndex]]
    IN  [ts EXCEPT ![i] = [players |-> newA, totalAdr |-> SumAdr(newA)],
                   ![j] = [players |-> newB, totalAdr |-> SumAdr(newB)]]

\* RevertSwap leaving the swapped players where the attempt put them
RevertSwapSkipped(swapped, i, aIndex, j, bIndex) == swapped

\* lines 111-120: the players are swapped back and both totals reduced again
RevertSwap(swapped, i, aIndex, j, bIndex) == SwapPlayers(swapped, i, aIndex, j, bIndex)

\* Improves accepting a swap that leaves the spread as it was
ImprovesOrEqual(newDiff, diff) == newDiff <= diff

\* line 107: newDiff < adrDiff
Improves(newDiff, diff) == newDiff < diff

\* one iteration of the search loop, lines 71-123
SwapAttempt(rnd, stepCap) ==
    /\ pc = "search"
    /\ noImprovement < maxNoImprovement /\ noImprovement < stepCap
    /\ \E pair \in TeamPairs(Len(teams), rnd) :
          IF pair[2] = NoIndex
          THEN \* teams[j] is undefined: reading teamB.players throws
               /\ pc' = "opt_threw"
               /\ error' = [name |-> "TypeError", code |-> "",
                            message |-> <<"Cannot read properties of undefined">>]
               /\ UNCHANGED <<teams, adrDiff, noImprovement>>
          ELSE LET i == pair[1] + 1
                   j == pair[2] + 1
               IN  \E aIndex \in {RandomIndex(k, Len(teams[i].players), rnd.grid) + 1 :
                                      k \in 0 .. (rnd.grid - 1)},
                      bIndex \in {RandomIndex(k, Len(teams[j].players), rnd.grid) + 1 :
                                      k \in 0 .. (rnd.grid - 1)} :
                     \E swapped \in {SwapPlayers(teams, i, aIndex, j, bIndex)} :
                        /\ IF Improves(Spread(swapped), adrDiff)
                           THEN /\ teams' = swapped
                                /\ adrDiff' = Spread(swapped)
                                /\ noImprovement' = 0
                           ELSE \* revert: swap back and re-reduce
                                /\ teams' = RevertSwap(swapped, i, aIndex, j, bIndex)
                                /\ noImprovement' = noImprovement + 1
                                /\ UNCHANGED adrDiff
                        /\ UNCHANGED <<pc, error>>
    /\ randUsed' = TRUE
    /\ UNCHANGED <<callVars, optArgs, run, bestTeams, bestDiff, optResult, optInvoked,
                   firstDiff, runLog, svcVars, genVars>>
    /\ UNCHANGED restVars

\* RunEnd keeping the last run instead of the best
RunEndKeepLast(stepCap) ==
    /\ pc = "search"
    /\ ~(noImprovement < maxNoImprovement /\ noImprovement < stepCap)
    /\ bestDiff' = adrDiff
    /\ bestTeams' = teams
    /\ run' = run + 1
    /\ pc' = "run_loop"
    /\ teams' = <<>>
    /\ adrDiff' = 0
    /\ noImprovement' = 0
    /\ runLog' = Append(runLog, [teams |-> teams, adrDiff |-> adrDiff])
    /\ UNCHANGED <<callVars, optArgs, optResult, error, randUsed, optInvoked, firstDiff,
                   svcVars, genVars>>
    /\ UNCHANGED restVars

\* RunEnd replacing the best run also on an equal spread
RunEndTiesToLater(stepCap) ==
    /\ pc = "search"
    /\ ~(noImprovement < maxNoImprovement /\ noImprovement < stepCap)
    /\ IF adrDiff <= bestDiff
       THEN /\ bestDiff' = adrDiff
            /\ bestTeams' = teams
       ELSE UNCHANGED <<bestDiff, bestTeams>>
    /\ run' = run + 1
    /\ pc' = "run_loop"
    /\ teams' = <<>>
    /\ adrDiff' = 0
    /\ noImprovement' = 0
    /\ runLog' = Append(runLog, [teams |-> teams, adrDiff |-> adrDiff])
    /\ UNCHANGED <<callVars, optArgs, optResult, error, randUsed, optInvoked, firstDiff,
                   svcVars, genVars>>
    /\ UNCHANGED restVars

\* the end of a run, lines 125-130: keep the best run
RunEnd(stepCap) ==
    /\ pc = "search"
    /\ ~(noImprovement < maxNoImprovement /\ noImprovement < stepCap)
    /\ IF adrDiff < bestDiff
       THEN /\ bestDiff' = adrDiff
            /\ bestTeams' = teams
       ELSE UNCHANGED <<bestDiff, bestTeams>>
    /\ run' = run + 1
    /\ pc' = "run_loop"
    \* teams, adrDiff and noImprovement are locals of the loop body
    /\ teams' = <<>>
    /\ adrDiff' = 0
    /\ noImprovement' = 0
    /\ runLog' = Append(runLog, [teams |-> teams, adrDiff |-> adrDiff])
    /\ UNCHANGED <<callVars, optArgs, optResult, error, randUsed, optInvoked, firstDiff,
                   svcVars, genVars>>
    /\ UNCHANGED restVars

\* line 132
OptimizeTeamsReturn(runCap) ==
    /\ pc = "run_loop"
    /\ ~(RunLt(run, runs) /\ run < runCap)
    /\ optResult' = [teams |-> bestTeams, adrDiff |-> bestDiff]
    /\ pc' = "opt_returned"
    /\ UNCHANGED <<callVars, optArgs, optLocals, error, randUsed, optInvoked, firstDiff, runLog,
                   svcVars, genVars>>
    /\ UNCHANGED restVars


\* ------------------------------------------------ TeamGenerationService
DefaultRuns == 200
MaxRuns == 200
DefaultTeamSize == 5

TeamGenerationError(message) ==
    [name |-> "TeamGenerationError", code |-> "", message |-> message]

\* names.join(", ")
RECURSIVE Join(_)
Join(names) ==
    IF Len(names) <= 1 THEN names ELSE <<names[1], ", ">> \o Join(Tail(names))

Usernames(ps) == [i \in DOMAIN ps |-> ps[i].username]

\* p.adr === undefined || p.adr === null
AdrMissing(p) == p.adr.t \in {"undefined", "null"}
\* typeof p.adr !== "number" || p.adr < 0 || p.adr > 999.99
AdrInvalid(p) == p.adr.t # "number" \/ p.adr.v < 0 \/ p.adr.v > 99999

\* validatePlayers checking the ratings before the count
validatePlayersRatingsFirst(ps, size) ==
    LET playersWithoutAdr == SelectSeq(ps, AdrMissing)
        invalidAdrPlayers == SelectSeq(ps, AdrInvalid)
    IN  IF Len(ps) = 0
        THEN TeamGenerationError(<<"No players provided for team generation">>)
        ELSE IF Len(playersWithoutAdr) > 0
        THEN TeamGenerationError(<<"Players missing ADR: ">> \o Join(Usernames(playersWithoutAdr)))
        ELSE IF Len(invalidAdrPlayers) > 0
        THEN TeamGenerationError(<<"Players with invalid ADR values: ">>
                                 \o Join(Usernames(invalidAdrPlayers)))
        ELSE IF Len(ps) % size # 0
        THEN TeamGenerationError(<<"Player count (", ToString(Len(ps)),
                                   ") must be divisible by team size (", ToString(size), ")">>)
        ELSE NoError

\* validatePlayers: the error it throws, NoError when it returns
validatePlayers(ps, size) ==
    LET playersWithoutAdr == SelectSeq(ps, AdrMissing)
        invalidAdrPlayers == SelectSeq(ps, AdrInvalid)
    IN  IF Len(ps) = 0
        THEN TeamGenerationError(<<"No players provided for team generation">>)
        ELSE IF Len(ps) % size # 0
        THEN TeamGenerationError(<<"Player count (", ToString(Len(ps)),
                                   ") must be divisible by team size (", ToString(size), ")">>)
        ELSE IF Len(playersWithoutAdr) > 0
        THEN TeamGenerationError(<<"Players missing ADR: ">> \o Join(Usernames(playersWithoutAdr)))
        ELSE IF Len(invalidAdrPlayers) > 0
        THEN TeamGenerationError(<<"Players with invalid ADR values: ">>
                                 \o Join(Usernames(invalidAdrPlayers)))
        ELSE NoError

\* validateRuns: the count it returns (in halves) or the error it throws
validateRuns(r, c) ==
    IF r.t = "undefined" THEN [value |-> 2 * c.defaultRuns, error |-> NoError]
    ELSE IF r.t # "number" \/ r.v < 2
    THEN [value |-> 0,
          error |-> TeamGenerationError(<<"Optimization runs must be a positive number">>)]
    ELSE IF r.v > 2 * c.maxRuns
    THEN [value |-> 0,
          error |-> TeamGenerationError(<<"Optimization runs (", ToString(r.v), "/2",
                                          ") exceeds maximum allowed (", ToString(c.maxRuns), ")">>)]
    ELSE [value |-> r.v, error |-> NoError]

\* maxIterations rounding 10000 / optimizationRuns up
maxIterationsRoundedUp(optimizationRuns) ==
    Min2(500, (2 * 10000 + optimizationRuns - 1) \div optimizationRuns)

\* line 168: Math.min(500, Math.floor(10000 / optimizationRuns)), the runs in halves
maxIterations(optimizationRuns) == Min2(500, (2 * 10000) \div optimizationRuns)

\* convertToTeamgenFormat; ref is the identity of the object created for players[i]
convertToTeamgenFormat(ps) ==
    [i \in DOMAIN ps |->
        [name |-> IF ps[i].display_name # "" THEN ps[i].display_name ELSE ps[i].username,
         adr |-> ps[i].adr.v,
         ref |-> i]]

generateTeamId(teamNumber) == "TEAM" \o ToString(teamNumber)

\* Math.round(averageAdr * 100) / 100 of totalAdr / players.length, in hundredths
AverageAdr(team) ==
    IF Len(team.players) > 0
    THEN (2 * team.totalAdr + Len(team.players)) \div (2 * Len(team.players))
    ELSE 0

\* convertFromTeamgenFormat
convertFromTeamgenFormat(ts) ==
    [index \in DOMAIN ts |->
        [id |-> generateTeamId(index),
         players |-> [k \in DOMAIN ts[index].players |->
                        [id |-> "",
                         username |-> ts[index].players[k].name,
                         display_name |-> ts[index].players[k].name,
                         adr |-> ts[index].players[k].adr]],
         average_adr |-> AverageAdr(ts[index]),
         total_adr |-> ts[index].totalAdr]]

\* generateBalancedTeams, lines 155-179: validation, conversion, the call of optimizeTeams
GenerateBalancedTeamsStart ==
    /\ pc = "svc_entry"
    /\ LET playersError == validatePlayers(tplayers, cfg.teamSize)
           optimizationRuns == validateRuns(runsArg, cfg)
       IN  IF playersError # NoError
           THEN /\ error' = playersError
                /\ pc' = "svc_threw"
                /\ UNCHANGED <<optArgs, optInvoked>>
           ELSE IF optimizationRuns.error # NoError
           THEN /\ error' = optimizationRuns.error
                /\ pc' = "svc_threw"
                /\ UNCHANGED <<optArgs, optInvoked>>
           ELSE /\ players' = convertToTeamgenFormat(tplayers)
                /\ teamSize' = cfg.teamSize
                /\ maxNoImprovement' = maxIterations(optimizationRuns.value)
                /\ runs' = optimizationRuns.value
                /\ optInvoked' = TRUE
                /\ pc' = "opt_entry"
                /\ UNCHANGED error
    /\ UNCHANGED <<callVars, optLocals, optResult, randUsed, firstDiff, runLog, svcVars, genVars>>
    /\ UNCHANGED restVars

\* generateBalancedTeams, lines 181-197: the result of optimizeTeams converted back
GenerateBalancedTeamsFinish ==
    /\ pc = "opt_returned"
    /\ entry # "optimizeTeams"
    /\ svcResult' = [teams |-> convertFromTeamgenFormat(optResult.teams),
                     adr_difference |-> optResult.adrDiff,
                     optimization_runs |-> runs]
    /\ pc' = "svc_returned"
    /\ UNCHANGED <<callVars, optArgs, optLocals, optResult, error, randUsed, optInvoked,
                   firstDiff, runLog, tplayers, cfg, runsArg, genVars>>
    /\ UNCHANGED restVars

\* generateBalancedTeams, lines 198-210: an error of optimizeTeams is rethrown, as a
\* timeout error when more than 0.8 * 25000 ms have passed (the clock is the
\* environment's)
GenerateBalancedTeamsCatch ==
    /\ pc = "opt_threw"
    /\ entry # "optimizeTeams"
    /\ \E slow \in BOOLEAN :
          error' = IF slow
                   THEN TeamGenerationError(<<"Team generation timed out. ",
                                              "Try reducing the number of optimization runs">>)
                   ELSE error
    /\ pc' = "svc_threw"
    /\ UNCHANGED <<callVars, optArgs, optLocals, optResult, randUsed, optInvoked, firstDiff, runLog,
                   svcVars, genVars>>
    /\ UNCHANGED restVars

\* ----------------------------------------- TournamentService.generateTeams
TournamentError(message, code) == [name |-> "TournamentError", code |-> code, message |-> message]
DatabaseError(message) == [name |-> "DatabaseError", code |-> "", message |-> message]

\* rows of teams and of team_players
TeamRow(tid, teamId, locked) == [tournamentId |-> tid, id |-> teamId, locked |-> locked]
TeamPlayerRow(tid, teamId, playerId) == [tournamentId |-> tid, teamId |-> teamId, playerId |-> playerId]
\* a tournament_players row, and the players row a left join finds none for
TournamentPlayerRow(tournamentId, playerId, adr, adrLocked) ==
    [tournamentId |-> tournamentId, playerId |-> playerId, adr |-> adr, adrLocked |-> adrLocked]
NoPlayer == [id |-> "", username |-> "", displayName |-> "", defaultAdr |-> Null]

\* PlayerRepository.getTournamentPlayers: the rows of the tournament, each with its
\* players row
getTournamentPlayers(tournamentId, rows, registry) ==
    LET ofTournament == SelectSeq(rows, LAMBDA row : row.tournamentId = tournamentId)
    IN  [i \in DOMAIN ofTournament |->
            [tournamentId |-> ofTournament[i].tournamentId,
             playerId |-> ofTournament[i].playerId,
             adr |-> ofTournament[i].adr,
             adrLocked |-> ofTournament[i].adrLocked,
             player |-> IF \E row \in registry : row.id = ofTournament[i].playerId
                        THEN CHOOSE row \in registry : row.id = ofTournament[i].playerId
                        ELSE NoPlayer]]

\* p.adr === null || p.adr === undefined
DbAdrMissing(tp) == tp.adr.t \in {"undefined", "null"}
\* p.player?.username || p.playerId
UsernameOrId(tp) == IF tp.player.username # "" THEN tp.player.username ELSE tp.playerId
\* tp.player?.displayName || tp.player?.username || "Unknown"
NameUsedInTeamGen(tp) ==
    IF tp.player.displayName # "" THEN tp.player.displayName
    ELSE IF tp.player.username # "" THEN tp.player.username
    ELSE "Unknown"

\* lines 594-603
ToTeamGenPlayers(tps) ==
    [i \in DOMAIN tps |->
        [id |-> tps[i].playerId,
         username |-> IF tps[i].player.username # "" THEN tps[i].player.username ELSE "Unknown",
         display_name |-> NameUsedInTeamGen(tps[i]),
         adr |-> tps[i].adr]]

\* `${nextSequence}`: the decimal digits of a number
RECURSIVE ToDecimal(_)
ToDecimal(n) == IF n < 10 THEN <<n>> ELSE Append(ToDecimal(n \div 10), n % 10)

\* parseInt(text, 10) of a text of digits
RECURSIVE parseInt(_)
parseInt(digits) ==
    IF Len(digits) = 1 THEN digits[1]
    ELSE 10 * parseInt(SubSeq(digits, 1, Len(digits) - 1)) + digits[Len(digits)]

\* a tournament id `${date}-${n}`, held as its date and the digits after the last "-"
TournamentId(date, n) == [date |-> date, sequence |-> ToDecimal(n)]
NoTournament == [id |-> TournamentId("", 0), status |-> "none"]

\* TournamentRepository.getOpenTournament: the rows the query with limit 1 can return
getOpenTournament(rows) == {row \in rows : row.status = "open"}

\* TeamRepository.teamsExist
teamsExist(tournamentId, teamRows) == \E row \in teamRows : row.tournamentId = tournamentId

\* areTeamsLocked answering false whatever the rows hold
areTeamsLockedNever(tournamentId, teamRows) == {FALSE}

\* TeamRepository.areTeamsLocked: result[0]?.locked || false for the one row the query
\* with limit 1 returns; the values it can answer
areTeamsLocked(tournamentId, teamRows) ==
    IF teamsExist(tournamentId, teamRows)
    THEN {row.locked : row \in {r \in teamRows : r.tournamentId = tournamentId}}
    ELSE {FALSE}

\* generateTeams, lines 552-609: the checks and the call of generateBalancedTeams
GenerateTeamsStart ==
    /\ pc = "gen_entry"
    /\ \/ /\ getOpenTournament(tournaments) = {}
          /\ error' = TournamentError(<<"No tournament is currently open">>, "NO_OPEN_TOURNAMENT")
          /\ pc' = "gen_threw"
          /\ UNCHANGED <<tplayers, tournament>>
       \/ /\ \E found \in getOpenTournament(tournaments) :
                /\ tournament' = found
                /\ teamsExist(found.id, dbTeams)
                /\ TRUE \in areTeamsLocked(found.id, dbTeams)
          /\ error' = TournamentError(<<"Teams are currently locked. Unlock them before regenerating.">>,
                                      "TEAMS_LOCKED")
          /\ pc' = "gen_threw"
          /\ UNCHANGED tplayers
       \/ /\ \E found \in getOpenTournament(tournaments) :
                /\ tournament' = found
                /\ ~teamsExist(found.id, dbTeams) \/ FALSE \in areTeamsLocked(found.id, dbTeams)
          /\ LET fetched == getTournamentPlayers(tournament'.id, tournamentPlayers, playerTable)
                 playersWithoutAdr == SelectSeq(fetched, DbAdrMissing)
             IN  IF Len(playersWithoutAdr) > 0
                 THEN /\ error' = TournamentError(
                                     <<"Players missing ADR: ">>
                                     \o Join([i \in DOMAIN playersWithoutAdr |->
                                                 UsernameOrId(playersWithoutAdr[i])]),
                                     "PLAYERS_MISSING_ADR")
                      /\ pc' = "gen_threw"
                      /\ UNCHANGED tplayers
                 ELSE IF Len(fetched) % 5 # 0
                 THEN /\ error' = TournamentError(
                                     <<"Player count (", ToString(Len(fetched)),
                                       ") must be divisible by 5 for team generation">>,
                                     "INVALID_PLAYER_COUNT")
                      /\ pc' = "gen_threw"
                      /\ UNCHANGED tplayers
                 ELSE /\ tplayers' = ToTeamGenPlayers(fetched)
                      /\ pc' = "svc_entry"
                      /\ UNCHANGED error
    /\ UNCHANGED <<callVars, optArgs, optLocals, optResult, randUsed, optInvoked, firstDiff, runLog,
                   cfg, runsArg, svcResult, dbVars, teamData, genResult>>
    /\ UNCHANGED restVars

\* nameToPlayerMap.get(name): the last tournament player entered under the name,
\* 0 when there is none
NameToPlayer(tps, name) ==
    LET named == {i \in DOMAIN tps : NameUsedInTeamGen(tps[i]) = name}
    IN  IF named = {} THEN 0 ELSE SetMax(named)

\* lines 620-652: every generated player gets the id of the player mapped to its name
TeamsWithPlayerIds(tps, generated) ==
    [t \in DOMAIN generated |->
        [generated[t] EXCEPT !.players =
            [k \in DOMAIN generated[t].players |->
                [generated[t].players[k] EXCEPT !.id =
                    IF NameToPlayer(tps, generated[t].players[k].username) = 0 THEN ""
                    ELSE tps[NameToPlayer(tps, generated[t].players[k].username)].playerId]]]]

\* lines 655-658
TeamData(withIds) ==
    [t \in DOMAIN withIds |->
        [id |-> withIds[t].id,
         players |-> [k \in DOMAIN withIds[t].players |-> withIds[t].players[k].id]]]

\* generateTeams, lines 611-674: the generated players mapped back, the team data
\* built and checked, createTeams called
GenerateTeamsMap ==
    /\ pc = "svc_returned"
    /\ entry = "generateTeams"
    /\ \E fetched \in {getTournamentPlayers(tournament.id, tournamentPlayers, playerTable)} :
       \E withIds \in {TeamsWithPlayerIds(fetched, svcResult.teams)} :
          IF \E t \in DOMAIN withIds : \E k \in DOMAIN withIds[t].players :
                NameToPlayer(fetched, withIds[t].players[k].username) = 0
          THEN /\ error' = TournamentError(<<"Failed to map generated team player">>,
                                           "PLAYER_MAPPING_FAILED")
               /\ pc' = "gen_threw"
               /\ UNCHANGED <<teamData, genResult>>
          ELSE IF \E t \in DOMAIN withIds : \E k \in DOMAIN withIds[t].players :
                     withIds[t].players[k].id = ""
          THEN /\ error' = TournamentError(<<"Invalid player ID found in team">>,
                                           "INVALID_PLAYER_ID")
               /\ pc' = "gen_threw"
               /\ teamData' = TeamData(withIds)
               /\ UNCHANGED genResult
          ELSE /\ teamData' = TeamData(withIds)
               /\ genResult' = withIds
               /\ pc' = "create_teams"
               /\ UNCHANGED error
    /\ UNCHANGED <<callVars, optArgs, optLocals, optResult, randUsed, optInvoked, firstDiff, runLog,
                   svcVars, dbVars, tournament>>
    /\ UNCHANGED restVars

\* clearTeams deleting from teams only
clearTeamsOnly(tournamentId, teamRows, teamPlayerRows) ==
    [teams |-> {row \in teamRows : row.tournamentId # tournamentId},
     teamPlayers |-> teamPlayerRows]

\* TeamRepository.clearTeams: the rows left in teams and team_players
clearTeams(tournamentId, teamRows, teamPlayerRows) ==
    [teams |-> {row \in teamRows : row.tournamentId # tournamentId},
     teamPlayers |-> {row \in teamPlayerRows : row.tournamentId # tournamentId}]

\* the places <<team, position>> of the player ids in the team data
PlayerPlaces(data) == UNION {{<<t, k>> : k \in DOMAIN data[t].players} : t \in DOMAIN data}

\* TeamRepository.createTeams: clearTeams, then one insert of the teams, then one
\* insert of the team players; an insert of no rows throws, an insert that repeats a
\* primary key, among its rows or of a stored row, fails as a whole; the rows left and
\* the error thrown
createTeams(tournamentId, data, teamRows, teamPlayerRows) ==
    LET cleared == clearTeams(tournamentId, teamRows, teamPlayerRows)
        teamInserts == {[tournamentId |-> tournamentId, id |-> data[t].id, locked |-> FALSE] :
                           t \in DOMAIN data}
        teamPlayerInserts == {[tournamentId |-> tournamentId, teamId |-> data[pl[1]].id,
                               playerId |-> data[pl[1]].players[pl[2]]] : pl \in PlayerPlaces(data)}
        failed == DatabaseError(<<"Failed to create teams">>)
    IN  IF \/ Len(data) = 0
           \/ Cardinality(teamInserts) < Len(data)
           \/ \E new \in teamInserts, row \in cleared.teams :
                 row.tournamentId = new.tournamentId /\ row.id = new.id
        THEN [teams |-> cleared.teams, teamPlayers |-> cleared.teamPlayers, error |-> failed]
        ELSE IF \/ Cardinality(teamPlayerInserts) < Cardinality(PlayerPlaces(data))
                \/ teamPlayerInserts \cap cleared.teamPlayers # {}
        THEN [teams |-> cleared.teams \cup teamInserts, teamPlayers |-> cleared.teamPlayers,
              error |-> failed]
        ELSE [teams |-> cleared.teams \cup teamInserts,
              teamPlayers |-> cleared.teamPlayers \cup teamPlayerInserts,
              error |-> NoError]

\* a call of TeamRepository.createTeams(tournament.id, teamData)
CreateTeams ==
    /\ pc = "create_teams"
    /\ \E done \in {createTeams(tournament.id, teamData, dbTeams, dbTeamPlayers)} :
          /\ dbTeams' = done.teams
          /\ dbTeamPlayers' = done.teamPlayers
          /\ IF done.error # NoError
             THEN error' = done.error /\ pc' = "create_threw"
             ELSE UNCHANGED error /\ pc' = "create_returned"
    /\ UNCHANGED <<callVars, optArgs, optLocals, optResult, randUsed, optInvoked, firstDiff, runLog,
                   svcVars, tournaments, tournamentPlayers, tournament, teamData, genResult>>
    /\ UNCHANGED restVars

\* generateTeams, line 676: createTeams has returned, the teams are returned
GenerateTeamsReturn ==
    /\ pc = "create_returned"
    /\ entry = "generateTeams"
    /\ pc' = "gen_returned"
    /\ UNCHANGED <<callVars, optArgs, optLocals, optResult, error, randUsed, optInvoked, firstDiff,
                   runLog, svcVars, genVars>>
    /\ UNCHANGED restVars

\* generateTeams, lines 677-695: a TournamentError or TeamGenerationError is rethrown,
\* any other error wrapped
GenerateTeamsCatch ==
    /\ pc \in {"svc_threw", "create_threw"}
    /\ entry = "generateTeams"
    /\ error' = IF error.name \in {"TournamentError", "TeamGenerationError"}
                THEN error
                ELSE TournamentError(<<"Failed to generate teams: ">> \o error.message,
                                     "TEAM_GENERATION_FAILED")
    /\ pc' = "gen_threw"
    /\ UNCHANGED <<callVars, optArgs, optLocals, optResult, randUsed, optInvoked, firstDiff, runLog,
                   svcVars, genVars>>
    /\ UNCHANGED restVars

\* --------------------------- TournamentService.openTournament / closeTournament
\* lines 111-117: the sequence numbers of the ids, parsed and sorted as numbers
RECURSIVE SequenceNumbers(_)
SequenceNumbers(ids) ==
    IF ids = {} THEN <<>>
    ELSE LET least == CHOOSE id \in ids :
                         \A other \in ids : parseInt(id.sequence) <= parseInt(other.sequence)
         IN  <<parseInt(least.sequence)>> \o SequenceNumbers(ids \ {least})

\* NextSequence going on to the number after the last one
RECURSIVE NextSequenceAfterLast(_, _, _)
NextSequenceAfterLast(sequenceNumbers, k, nextSequence) ==
    IF k > Len(sequenceNumbers) THEN nextSequence
    ELSE NextSequenceAfterLast(sequenceNumbers, k + 1, sequenceNumbers[k] + 1)

\* lines 120-127: the loop over the sorted numbers from position k on, left at the
\* first number that is not nextSequence
RECURSIVE NextSequence(_, _, _)
NextSequence(sequenceNumbers, k, nextSequence) ==
    IF k > Len(sequenceNumbers) THEN nextSequence
    ELSE IF sequenceNumbers[k] = nextSequence
    THEN NextSequence(sequenceNumbers, k + 1, nextSequence + 1)
    ELSE nextSequence

\* TournamentRepository.generateTournamentId: the ids LIKE `${date}-%` are those of the date
generateTournamentId(date, rows) ==
    LET existingTournaments == {row.id : row \in {r \in rows : r.id.date = date}}
    IN  TournamentId(date, NextSequence(SequenceNumbers(existingTournaments), 1, 1))

\* a direct call of TournamentRepository.generateTournamentId(date)
GenerateTournamentId(date, maxTournaments) ==
    /\ pc = "idle"
    /\ Cardinality(tournaments) < maxTournaments
    /\ entry' = "generateTournamentId"
    /\ args' = [date |-> date]
    /\ tournament' = [id |-> generateTournamentId(date, tournaments), status |-> "none"]
    /\ pc' = "id_generated"
    /\ error' = NoError
    /\ UNCHANGED <<callNo, firstOutcome, optArgs, optLocals, optResult, randUsed, optInvoked,
                   firstDiff, runLog, svcVars, dbVars, teamData, genResult,
                   playerTable, matches, matchTeamPlayers, result, procs, adrLocks>>

\* a direct call of TournamentRepository.createTournament(id), lines 39-50, with the
\* id generated
CreateTournament ==
    /\ pc = "id_generated"
    /\ entry' = "createTournament"
    /\ IF \E row \in tournaments : row.id = tournament.id
       THEN /\ error' = DatabaseError(<<"Failed to create tournament">>)
            /\ UNCHANGED <<tournaments, tournament>>
       ELSE /\ tournaments' = tournaments \cup {[id |-> tournament.id, status |-> "open"]}
            /\ tournament' = [id |-> tournament.id, status |-> "open"]
            /\ error' = NoError
    /\ pc' = "idle"
    /\ UNCHANGED <<callNo, firstOutcome, optArgs, optLocals, optResult, randUsed, optInvoked,
                   firstDiff, runLog, svcVars, tournamentPlayers, dbTeams, dbTeamPlayers,
                   teamData, genResult, restVars>>

\* the locals of the team generation calls, unused by the other service methods
NoGeneration ==
    /\ UNCHANGED <<optArgs, optLocals, optResult, randUsed, optInvoked, firstDiff, runLog, svcVars,
                   tournamentPlayers, dbTeams, dbTeamPlayers, teamData, genResult>>
    /\ UNCHANGED restVars

\* openTournament creating the tournament without looking for an open one
OpenTournamentUnchecked(today, maxTournaments) ==
    /\ pc = "idle"
    /\ Cardinality(tournaments) < maxTournaments
    /\ entry' = "openTournament"
    /\ \E created \in {[id |-> generateTournamentId(today, tournaments), status |-> "open"]} :
          /\ tournaments' = tournaments \cup {created}
          /\ tournament' = created
          /\ error' = NoError
    /\ UNCHANGED <<pc, callNo, firstOutcome>>
    /\ NoGeneration
    /\ UNCHANGED restVars

\* openTournament, lines 94-136, on the date the clock and the time zone give; the calls
\* stop once the table holds maxTournaments tournaments
OpenTournament(today, maxTournaments) ==
    /\ pc = "idle"
    /\ Cardinality(tournaments) < maxTournaments
    /\ entry' = "openTournament"
    /\ IF getOpenTournament(tournaments) # {}
       THEN /\ \E existingTournament \in getOpenTournament(tournaments) :
                  error' = TournamentError(<<"Tournament ", existingTournament.id,
                                             " is already open. Close it before opening a new one.">>,
                                           "TOURNAMENT_ALREADY_OPEN")
            /\ UNCHANGED <<tournaments, tournament>>
       ELSE \E created \in {[id |-> generateTournamentId(today, tournaments), status |-> "open"]} :
               IF \E row \in tournaments : row.id = created.id
               THEN \* createTournament: the insert repeats the primary key
                    /\ error' = TournamentError(<<"Failed to open tournament">>,
                                                "TOURNAMENT_OPEN_FAILED")
                    /\ UNCHANGED <<tournaments, tournament>>
               ELSE /\ tournaments' = tournaments \cup {created}
                    /\ tournament' = created
                    /\ error' = NoError
    /\ UNCHANGED <<pc, callNo, firstOutcome>>
    /\ NoGeneration
    /\ UNCHANGED restVars

\* closeTournament, lines 143-178
CloseTournament ==
    /\ pc = "idle"
    /\ entry' = "closeTournament"
    /\ IF getOpenTournament(tournaments) = {}
       THEN /\ error' = TournamentError(<<"No tournament is currently open">>, "NO_OPEN_TOURNAMENT")
            /\ UNCHANGED <<tournaments, tournament>>
       ELSE \E openTournament \in getOpenTournament(tournaments) :
               /\ tournaments' = {IF row.id = openTournament.id
                                   THEN [row EXCEPT !.status = "closed"] ELSE row : row \in tournaments}
               /\ tournament' = [openTournament EXCEPT !.status = "closed"]
               /\ error' = NoError
    /\ UNCHANGED <<pc, callNo, firstOutcome>>
    /\ NoGeneration
    /\ UNCHANGED restVars

\* ------------------------------- TournamentService.lockTeams / unlockTeams
\* TeamRepository.lockTeams / unlockTeams: every team row of the tournament gets the flag
setTeamsLocked(tournamentId, locked, teamRows) ==
    {IF row.tournamentId = tournamentId THEN [row EXCEPT !.locked = locked] ELSE row : row \in teamRows}

\* no service call is under way
Idle == pc \in {"idle", "gen_returned", "gen_threw"}

\* lockTeams, lines 703-724
LockTeams ==
    /\ Idle
    /\ entry' = "lockTeams"
    /\ pc' = "idle"
    /\ IF getOpenTournament(tournaments) = {}
       THEN /\ error' = TournamentError(<<"No tournament is currently open">>, "NO_OPEN_TOURNAMENT")
            /\ UNCHANGED <<tournament, dbTeams>>
       ELSE \E found \in getOpenTournament(tournaments) :
               /\ tournament' = found
               /\ IF ~teamsExist(found.id, dbTeams)
                  THEN /\ error' = TournamentError(
                                      <<"No teams have been generated yet. Generate teams before locking.">>,
                                      "NO_TEAMS_TO_LOCK")
                       /\ UNCHANGED dbTeams
                  ELSE /\ dbTeams' = setTeamsLocked(found.id, TRUE, dbTeams)
                       /\ error' = NoError
    /\ UNCHANGED <<callNo, firstOutcome, optArgs, optLocals, optResult, randUsed, optInvoked,
                   firstDiff, runLog, svcVars, tournaments, tournamentPlayers, dbTeamPlayers,
                   teamData, genResult>>
    /\ UNCHANGED restVars

\* unlockTeams, lines 731-752
UnlockTeams ==
    /\ Idle
    /\ entry' = "unlockTeams"
    /\ pc' = "idle"
    /\ IF getOpenTournament(tournaments) = {}
       THEN /\ error' = TournamentError(<<"No tournament is currently open">>, "NO_OPEN_TOURNAMENT")
            /\ UNCHANGED <<tournament, dbTeams>>
       ELSE \E found \in getOpenTournament(tournaments) :
               /\ tournament' = found
               /\ IF ~teamsExist(found.id, dbTeams)
                  THEN /\ error' = TournamentError(<<"No teams have been generated yet.">>,
                                                   "NO_TEAMS_TO_UNLOCK")
                       /\ UNCHANGED dbTeams
                  ELSE /\ dbTeams' = setTeamsLocked(found.id, FALSE, dbTeams)
                       /\ error' = NoError
    /\ UNCHANGED <<callNo, firstOutcome, optArgs, optLocals, optResult, randUsed, optInvoked,
                   firstDiff, runLog, svcVars, tournaments, tournamentPlayers, dbTeamPlayers,
                   teamData, genResult>>
    /\ UNCHANGED restVars

\* ------------------------------------------- TournamentService.recordMatch
\* a string is held as the sequence of its characters
UpperCase == {"A", "B", "C", "D", "E", "F", "G", "H", "I", "J", "K", "L", "M",
              "N", "O", "P", "Q", "R", "S", "T", "U", "V", "W", "X", "Y", "Z"}
DigitChars == {"0", "1", "2", "3", "4", "5", "6", "7", "8", "9"}
DigitValue(c) ==
    CASE c = "0" -> 0 [] c = "1" -> 1 [] c = "2" -> 2 [] c = "3" -> 3 [] c = "4" -> 4
      [] c = "5" -> 5 [] c = "6" -> 6 [] c = "7" -> 7 [] c = "8" -> 8 [] c = "9" -> 9

\* the characters as one string
RECURSIVE Concat(_)
Concat(chars) == IF chars = <<>> THEN "" ELSE chars[1] \o Concat(Tail(chars))

\* the parts of a text between the "-" characters
RECURSIVE SplitAtDash(_)
SplitAtDash(chars) ==
    IF \A k \in DOMAIN chars : chars[k] # "-" THEN <<chars>>
    ELSE LET first == CHOOSE k \in DOMAIN chars :
                         chars[k] = "-" /\ \A x \in 1 .. (k - 1) : chars[x] # "-"
         IN  <<SubSeq(chars, 1, first - 1)>> \o SplitAtDash(SubSeq(chars, first + 1, Len(chars)))

\* matchString.match(/^([A-Z0-9]+)-(\d+)-(\d+)-([A-Z0-9]+)$/): the four groups, <<>> for
\* null; no class holds "-", so a match has exactly the four parts between the dashes
MatchGroups(matchString) ==
    LET parts == SplitAtDash(matchString)
    IN  IF /\ Len(parts) = 4
           /\ \A k \in 1 .. 4 : parts[k] # <<>>
           /\ \A k \in {1, 4} : \A x \in DOMAIN parts[k] : parts[k][x] \in UpperCase \cup DigitChars
           /\ \A k \in {2, 3} : \A x \in DOMAIN parts[k] : parts[k][x] \in DigitChars
        THEN parts
        ELSE <<>>

\* parseMatchString without the comparison of the two team ids
parseMatchStringAnyTeams(matchString) ==
    LET match == MatchGroups(matchString)
    IN  IF match = <<>>
        THEN [error |-> TournamentError(
                           <<"Invalid match string format. Expected format: TEAM1-score1-score2-TEAM2">>,
                           "INVALID_MATCH_FORMAT")]
        ELSE [error |-> NoError,
              team1Id |-> Concat(match[1]),
              score1 |-> parseInt([x \in DOMAIN match[2] |-> DigitValue(match[2][x])]),
              score2 |-> parseInt([x \in DOMAIN match[3] |-> DigitValue(match[3][x])]),
              team2Id |-> Concat(match[4])]

\* parseMatchString, lines 854-892: the parsed match or the error thrown; the scores
\* are texts of digits, so neither is NaN or negative
parseMatchString(matchString) ==
    LET match == MatchGroups(matchString)
    IN  IF match = <<>>
        THEN [error |-> TournamentError(
                           <<"Invalid match string format. Expected format: TEAM1-score1-score2-TEAM2">>,
                           "INVALID_MATCH_FORMAT")]
        ELSE IF Concat(match[1]) = Concat(match[4])
        THEN [error |-> TournamentError(<<"Team cannot play against itself">>, "SAME_TEAM_MATCH")]
        ELSE [error |-> NoError,
              team1Id |-> Concat(match[1]),
              score1 |-> parseInt([x \in DOMAIN match[2] |-> DigitValue(match[2][x])]),
              score2 |-> parseInt([x \in DOMAIN match[3] |-> DigitValue(match[3][x])]),
              team2Id |-> Concat(match[4])]

\* MatchRepository.validateTeamsExist: the ids among the two that the tournament has
\* no team of
validateTeamsExist(tournamentId, team1Id, team2Id, teamRows) ==
    LET existingIds == {row.id : row \in {r \in teamRows : r.tournamentId = tournamentId
                                                          /\ r.id \in {team1Id, team2Id}}}
    IN  (IF team1Id \in existingIds THEN <<>> ELSE <<team1Id>>)
        \o (IF team2Id \in existingIds THEN <<>> ELSE <<team2Id>>)

\* TeamRepository.getTeamCompositionsForMatch and captureMatchTeamComposition: the
\* rows for match_team_players, the members of both teams with their ratings
MatchComposition(matchId, tournamentId, team1Id, team2Id, teamPlayerRows, playerRows) ==
    {[matchId |-> matchId, teamId |-> row.teamId, playerId |-> row.playerId,
      adrAtTime |-> IF \E k \in DOMAIN playerRows :
                          playerRows[k].tournamentId = tournamentId /\ playerRows[k].playerId = row.playerId
                    THEN playerRows[CHOOSE k \in DOMAIN playerRows :
                                       /\ playerRows[k].tournamentId = tournamentId
                                       /\ playerRows[k].playerId = row.playerId].adr
                    ELSE Null] :
        row \in {r \in teamPlayerRows : r.tournamentId = tournamentId /\ r.teamId \in {team1Id, team2Id}}}

\* the state the calls on matches leave alone
NoMatchState ==
    /\ UNCHANGED <<pc, callNo, firstOutcome, optArgs, optLocals, optResult, randUsed, optInvoked,
                   firstDiff, runLog, svcVars, dbVars, teamData, genResult, playerTable, procs,
                   adrLocks>>

\* recordMatch, lines 900-978; args.teamLookup tells whether validateTeamsExist was called
RecordMatch(matchString, maxMatches) ==
    /\ pc = "idle"
    /\ Cardinality(matches) < maxMatches
    /\ entry' = "recordMatch"
    /\ IF getOpenTournament(tournaments) = {}
       THEN /\ error' = TournamentError(<<"No tournament is currently open">>, "NO_OPEN_TOURNAMENT")
            /\ args' = [matchString |-> matchString, teamLookup |-> FALSE]
            /\ UNCHANGED <<tournament, matches, matchTeamPlayers, result>>
       ELSE \E found \in getOpenTournament(tournaments), parsed \in {parseMatchString(matchString)} :
               /\ tournament' = found
               /\ IF parsed.error # NoError
                  THEN /\ error' = parsed.error
                       /\ args' = [matchString |-> matchString, teamLookup |-> FALSE]
                       /\ UNCHANGED <<matches, matchTeamPlayers, result>>
                  ELSE /\ args' = [matchString |-> matchString, teamLookup |-> TRUE]
                       /\ LET missingTeams == validateTeamsExist(found.id, parsed.team1Id,
                                                                 parsed.team2Id, dbTeams)
                              matchId == Cardinality(matches) + 1
                              created == [id |-> matchId, tournamentId |-> found.id,
                                          team1Id |-> parsed.team1Id, team2Id |-> parsed.team2Id,
                                          score1 |-> parsed.score1, score2 |-> parsed.score2]
                              composition == MatchComposition(matchId, found.id, parsed.team1Id,
                                                              parsed.team2Id, dbTeamPlayers,
                                                              tournamentPlayers)
                          IN  IF Len(missingTeams) > 0
                              THEN /\ error' = TournamentError(
                                                  <<"Teams not found in tournament: ">> \o Join(missingTeams),
                                                  "TEAMS_NOT_FOUND")
                                   /\ UNCHANGED <<matches, matchTeamPlayers, result>>
                              ELSE /\ matches' = matches \cup {created}
                                   \* an insert naming a player without a players row fails
                                   \* as a whole, and the failure is only logged
                                   /\ matchTeamPlayers' =
                                         IF \A row \in composition :
                                               \E player \in playerTable : player.id = row.playerId
                                         THEN matchTeamPlayers \cup composition
                                         ELSE matchTeamPlayers
                                   /\ result' = created
                                   /\ error' = NoError
    /\ NoMatchState

\* ----------------------------------------- players of the open tournament
\* the rows of tournament_players with the key (tournamentId, playerId)
PlayerRows(rows, tournamentId, playerId) ==
    {k \in DOMAIN rows : rows[k].tournamentId = tournamentId /\ rows[k].playerId = playerId}

\* PlayerRepository.upsertPlayer, lines 180-198: insert, or on a conflict of the id set
\* username and displayName, and defaultAdr unless it is undefined
upsertPlayer(table, playerData) ==
    IF \E row \in table : row.id = playerData.id
    THEN {IF row.id = playerData.id
          THEN [row EXCEPT !.username = playerData.username,
                           !.displayName = playerData.displayName,
                           !.defaultAdr = IF playerData.defaultAdr = Undefined THEN @
                                          ELSE playerData.defaultAdr]
          ELSE row : row \in table}
    ELSE table \cup {[id |-> playerData.id, username |-> playerData.username,
                      displayName |-> playerData.displayName,
                      defaultAdr |-> IF playerData.defaultAdr = Undefined THEN Null
                                     ELSE playerData.defaultAdr]}

\* PlayerRepository.upsertTournamentPlayer, lines 256-271: insert, or on a conflict of
\* the key set adr and adrLocked
upsertTournamentPlayer(rows, data) ==
    IF PlayerRows(rows, data.tournamentId, data.playerId) = {}
    THEN Append(rows, data)
    ELSE [k \in DOMAIN rows |->
             IF k \in PlayerRows(rows, data.tournamentId, data.playerId)
             THEN [rows[k] EXCEPT !.adr = data.adr, !.adrLocked = data.adrLocked]
             ELSE rows[k]]

\* PlayerRepository.setPlayerAdrLock, lines 301-319
setPlayerAdrLock(rows, tournamentId, playerId, locked) ==
    [k \in DOMAIN rows |-> IF k \in PlayerRows(rows, tournamentId, playerId)
                           THEN [rows[k] EXCEPT !.adrLocked = locked]
                           ELSE rows[k]]

\* PlayerRepository.isPlayerAdrLocked, lines 324-346: result[0]?.adrLocked || false
isPlayerAdrLocked(rows, tournamentId, playerId) ==
    \E k \in PlayerRows(rows, tournamentId, playerId) : rows[k].adrLocked

\* PlayerRepository.isPlayerInTournament, lines 463-483
isPlayerInTournament(rows, tournamentId, playerId) ==
    PlayerRows(rows, tournamentId, playerId) # {}

\* PlayerRepository.joinTournament, lines 408-439: the row inserted unless the key is
\* taken, its adr being defaultAdr || null of the players row
joinTournament(rows, table, tournamentId, playerId) ==
    IF isPlayerInTournament(rows, tournamentId, playerId)
    THEN rows
    ELSE LET player == CHOOSE row \in table : row.id = playerId
             defaultAdr == IF player.defaultAdr \in {Null, Num(0)} THEN Null ELSE player.defaultAdr
         IN  Append(rows, TournamentPlayerRow(tournamentId, playerId, defaultAdr, FALSE))

\* PlayerRepository.leaveTournament, lines 445-457
leaveTournament(rows, tournamentId, playerId) ==
    SelectSeq(rows, LAMBDA row : ~(row.tournamentId = tournamentId /\ row.playerId = playerId))

\* TeamRepository.removePlayerFromTeams, lines 679-695
removePlayerFromTeams(teamPlayerRows, tournamentId, playerId) ==
    {row \in teamPlayerRows : ~(row.tournamentId = tournamentId /\ row.playerId = playerId)}

\* the state the calls on players and team members leave alone
ServiceFrame ==
    UNCHANGED <<pc, callNo, firstOutcome, optArgs, optLocals, optResult, randUsed, optInvoked,
                firstDiff, runLog, svcVars, tournaments, dbTeams, teamData, genResult,
                matches, matchTeamPlayers, procs>>

NoOpenTournament == TournamentError(<<"No tournament is currently open">>, "NO_OPEN_TOURNAMENT")

\* submitPlayerAdr, lines 277-322
SubmitPlayerAdr(who, adr) ==
    /\ Idle
    /\ entry' = "submitPlayerAdr"
    /\ args' = [playerId |-> who.id, adr |-> adr]
    /\ result' = NoValue
    /\ IF getOpenTournament(tournaments) = {}
       THEN /\ error' = NoOpenTournament
            /\ UNCHANGED <<tournament, playerTable, tournamentPlayers>>
       ELSE \E found \in getOpenTournament(tournaments) :
               /\ tournament' = found
               /\ IF isPlayerAdrLocked(tournamentPlayers, found.id, who.id)
                  THEN /\ error' = TournamentError(
                                      <<"Your ADR is locked and cannot be changed. Contact an admin if you need to update it.">>,
                                      "ADR_LOCKED")
                       /\ UNCHANGED <<playerTable, tournamentPlayers>>
                  ELSE /\ playerTable' = upsertPlayer(playerTable,
                                            [id |-> who.id, username |-> who.username,
                                             displayName |-> who.displayName, defaultAdr |-> adr])
                       /\ tournamentPlayers' = upsertTournamentPlayer(tournamentPlayers,
                                                  TournamentPlayerRow(found.id, who.id, adr, FALSE))
                       /\ error' = NoError
    /\ UNCHANGED <<dbTeamPlayers, adrLocks>>
    /\ ServiceFrame

\* submitAdminAdr, lines 335-370: no check of the lock; adr may be null
SubmitAdminAdr(who, adr, lock) ==
    /\ Idle
    /\ entry' = "submitAdminAdr"
    /\ args' = [playerId |-> who.id, adr |-> adr, lock |-> lock]
    /\ result' = NoValue
    /\ adrLocks' = adrLocks \ {who.id}
    /\ IF getOpenTournament(tournaments) = {}
       THEN /\ error' = NoOpenTournament
            /\ UNCHANGED <<tournament, playerTable, tournamentPlayers>>
       ELSE \E found \in getOpenTournament(tournaments) :
               /\ tournament' = found
               /\ playerTable' = upsertPlayer(playerTable,
                                    [id |-> who.id, username |-> who.username,
                                     displayName |-> who.displayName,
                                     defaultAdr |-> IF adr # Null THEN adr ELSE Undefined])
               /\ tournamentPlayers' = upsertTournamentPlayer(tournamentPlayers,
                                          TournamentPlayerRow(found.id, who.id, adr, lock))
               /\ error' = NoError
    /\ UNCHANGED dbTeamPlayers
    /\ ServiceFrame

\* lockPlayerAdr, lines 379-410
LockPlayerAdr(playerId) ==
    /\ Idle
    /\ entry' = "lockPlayerAdr"
    /\ args' = [playerId |-> playerId]
    /\ result' = NoValue
    /\ IF getOpenTournament(tournaments) = {}
       THEN /\ error' = NoOpenTournament
            /\ UNCHANGED <<tournament, tournamentPlayers, adrLocks>>
       ELSE \E found \in getOpenTournament(tournaments) :
               /\ tournament' = found
               /\ IF ~isPlayerInTournament(tournamentPlayers, found.id, playerId)
                  THEN /\ error' = TournamentError(
                                      <<"Player not found in current tournament. They must submit an ADR first.">>,
                                      "PLAYER_NOT_IN_TOURNAMENT")
                       /\ UNCHANGED <<tournamentPlayers, adrLocks>>
                  ELSE /\ tournamentPlayers' = setPlayerAdrLock(tournamentPlayers, found.id,
                                                                playerId, TRUE)
                       /\ adrLocks' = adrLocks \cup {playerId}
                       /\ error' = NoError
    /\ UNCHANGED <<playerTable, dbTeamPlayers>>
    /\ ServiceFrame

\* unlockPlayerAdr, lines 419-452
UnlockPlayerAdr(playerId) ==
    /\ Idle
    /\ entry' = "unlockPlayerAdr"
    /\ args' = [playerId |-> playerId]
    /\ result' = NoValue
    /\ adrLocks' = adrLocks \ {playerId}
    /\ IF getOpenTournament(tournaments) = {}
       THEN /\ error' = NoOpenTournament
            /\ UNCHANGED <<tournament, tournamentPlayers>>
       ELSE \E found \in getOpenTournament(tournaments) :
               /\ tournament' = found
               /\ IF ~isPlayerInTournament(tournamentPlayers, found.id, playerId)
                  THEN /\ error' = TournamentError(<<"Player not found in current tournament.">>,
                                                   "PLAYER_NOT_IN_TOURNAMENT")
                       /\ UNCHANGED tournamentPlayers
                  ELSE /\ tournamentPlayers' = setPlayerAdrLock(tournamentPlayers, found.id,
                                                                playerId, FALSE)
                       /\ error' = NoError
    /\ UNCHANGED <<playerTable, dbTeamPlayers>>
    /\ ServiceFrame

\* joinTournament, lines 1152-1193, by the player
JoinTournament(who) ==
    /\ Idle
    /\ entry' = "joinTournament"
    /\ args' = [playerId |-> who.id]
    /\ result' = NoValue
    /\ IF getOpenTournament(tournaments) = {}
       THEN /\ error' = NoOpenTournament
            /\ UNCHANGED <<tournament, playerTable, tournamentPlayers>>
       ELSE \E found \in getOpenTournament(tournaments) :
               /\ tournament' = found
               /\ playerTable' = upsertPlayer(playerTable,
                                    [id |-> who.id, username |-> who.username,
                                     displayName |-> who.displayName, defaultAdr |-> Undefined])
               /\ tournamentPlayers' = joinTournament(tournamentPlayers, playerTable',
                                                      found.id, who.id)
               /\ error' = NoError
    /\ UNCHANGED <<dbTeamPlayers, adrLocks>>
    /\ ServiceFrame

\* leaveTournament, lines 1203-1245, by the player or by an admin for the player: no
\* check of the ADR lock or of the team lock
LeaveTournament(playerId) ==
    /\ Idle
    /\ entry' = "leaveTournament"
    /\ args' = [playerId |-> playerId]
    /\ IF getOpenTournament(tournaments) = {}
       THEN /\ error' = NoOpenTournament
            /\ result' = NoValue
            /\ UNCHANGED <<tournament, tournamentPlayers, dbTeamPlayers>>
       ELSE \E found \in getOpenTournament(tournaments) :
               /\ tournament' = found
               /\ error' = NoError
               /\ IF ~isPlayerInTournament(tournamentPlayers, found.id, playerId)
                  THEN /\ result' = [value |-> FALSE]
                       /\ UNCHANGED <<tournamentPlayers, dbTeamPlayers>>
                  ELSE /\ dbTeamPlayers' = IF teamsExist(found.id, dbTeams)
                                           THEN removePlayerFromTeams(dbTeamPlayers, found.id, playerId)
                                           ELSE dbTeamPlayers
                       /\ tournamentPlayers' = leaveTournament(tournamentPlayers, found.id, playerId)
                       /\ result' = [value |-> TRUE]
    /\ UNCHANGED <<playerTable, adrLocks>>
    /\ ServiceFrame

\* ------------------------------------------------- members of the teams
\* TeamRepository.getPlayerTeam, lines 756-779: the team of one team_players row of the
\* player (limit 1 without an order); the answers the query can give, none if empty
getPlayerTeam(teamPlayerRows, tournamentId, playerId) ==
    {row.teamId : row \in {r \in teamPlayerRows : r.tournamentId = tournamentId
                                                   /\ r.playerId = playerId}}

\* update team_players set teamId where tournamentId and playerId match: the statement
\* fails as a whole when two rows would get the same key
UpdatePlayerTeam(teamPlayerRows, tournamentId, playerId, teamId) ==
    LET own == {r \in teamPlayerRows : r.tournamentId = tournamentId /\ r.playerId = playerId}
    IN  IF Cardinality(own) > 1
        THEN [ok |-> FALSE, rows |-> teamPlayerRows]
        ELSE [ok |-> TRUE,
              rows |-> (teamPlayerRows \ own)
                       \cup {TeamPlayerRow(tournamentId, teamId, playerId) : r \in own}]

\* exchangePlayers stopping after the first update
exchangePlayersFirstUpdateOnly(teamPlayerRows, tournamentId, player1Id, player2Id, team1Id, team2Id) ==
    UpdatePlayerTeam(teamPlayerRows, tournamentId, player1Id, team2Id)

\* TeamRepository.exchangePlayers, lines 805-831: the two updates one after the other,
\* no transaction; team1Id and team2Id are the teams getPlayerTeam answered
exchangePlayers(teamPlayerRows, tournamentId, player1Id, player2Id, team1Id, team2Id) ==
    LET first == UpdatePlayerTeam(teamPlayerRows, tournamentId, player1Id, team2Id)
    IN  IF ~first.ok THEN first
        ELSE UpdatePlayerTeam(first.rows, tournamentId, player2Id, team1Id)

\* exchangePlayers, lines 1281-1361
ExchangePlayers(player1Id, player2Id) ==
    /\ Idle
    /\ entry' = "exchangePlayers"
    /\ args' = [player1Id |-> player1Id, player2Id |-> player2Id]
    /\ IF getOpenTournament(tournaments) = {}
       THEN /\ error' = NoOpenTournament
            /\ UNCHANGED <<tournament, dbTeamPlayers>>
            /\ result' = NoValue
       ELSE \E found \in getOpenTournament(tournaments) :
            /\ tournament' = found
            /\ LET player1Teams == getPlayerTeam(dbTeamPlayers, found.id, player1Id)
                   player2Teams == getPlayerTeam(dbTeamPlayers, found.id, player2Id)
               IN  IF ~teamsExist(found.id, dbTeams)
                   THEN /\ error' = TournamentError(<<"No teams have been generated yet">>,
                                                    "NO_TEAMS_GENERATED")
                        /\ UNCHANGED dbTeamPlayers
                        /\ result' = NoValue
                   ELSE IF ~isPlayerInTournament(tournamentPlayers, found.id, player1Id)
                   THEN /\ error' = TournamentError(<<"First player is not in the current tournament">>,
                                                    "PLAYER_NOT_IN_TOURNAMENT")
                        /\ UNCHANGED dbTeamPlayers
                        /\ result' = NoValue
                   ELSE IF ~isPlayerInTournament(tournamentPlayers, found.id, player2Id)
                   THEN /\ error' = TournamentError(<<"Second player is not in the current tournament">>,
                                                    "PLAYER_NOT_IN_TOURNAMENT")
                        /\ UNCHANGED dbTeamPlayers
                        /\ result' = NoValue
                   ELSE IF player1Teams = {}
                   THEN /\ error' = TournamentError(<<"First player is not assigned to any team">>,
                                                    "PLAYER_NOT_ON_TEAM")
                        /\ UNCHANGED dbTeamPlayers
                        /\ result' = NoValue
                   ELSE IF player2Teams = {}
                   THEN /\ error' = TournamentError(<<"Second player is not assigned to any team">>,
                                                    "PLAYER_NOT_ON_TEAM")
                        /\ UNCHANGED dbTeamPlayers
                        /\ result' = NoValue
                   ELSE \E player1Team \in player1Teams, player2Team \in player2Teams :
                        IF player1Team = player2Team
                        THEN /\ error' = TournamentError(<<"Both players are on the same team">>,
                                                         "PLAYERS_SAME_TEAM")
                             /\ UNCHANGED dbTeamPlayers
                             /\ result' = NoValue
                        ELSE \* the repository reads the two teams again
                             \E team1Id \in player1Teams, team2Id \in player2Teams :
                             IF team1Id = team2Id
                             THEN /\ error' = TournamentError(<<"Failed to exchange players">>,
                                                              "PLAYER_EXCHANGE_FAILED")
                                  /\ UNCHANGED dbTeamPlayers
                                  /\ result' = NoValue
                             ELSE \E exchanged \in {exchangePlayers(dbTeamPlayers, found.id, player1Id,
                                                                    player2Id, team1Id, team2Id)} :
                                  /\ dbTeamPlayers' = exchanged.rows
                                  /\ IF exchanged.ok
                                     THEN /\ error' = NoError
                                          /\ result' = [player1Team |-> player2Team,
                                                        player2Team |-> player1Team]
                                     ELSE /\ error' = TournamentError(<<"Failed to exchange players">>,
                                                                      "PLAYER_EXCHANGE_FAILED")
                                          /\ result' = NoValue
    /\ UNCHANGED <<playerTable, tournamentPlayers, adrLocks>>
    /\ ServiceFrame

\* TeamRepository.addPlayerToTeam, lines 890-959, checking no capacity
addPlayerToTeamAnySize(teamRows, teamPlayerRows, tournamentId, playerId, teamId) ==
    IF ~\E row \in teamRows : row.tournamentId = tournamentId /\ row.id = teamId
    THEN [error |-> <<"Team ", teamId, " does not exist in tournament ", tournamentId>>,
          rows |-> teamPlayerRows]
    ELSE IF getPlayerTeam(teamPlayerRows, tournamentId, playerId) # {}
    THEN [error |-> <<"Failed to add player to team">>, rows |-> teamPlayerRows]
    ELSE [error |-> <<>>,
          rows |-> teamPlayerRows \cup {TeamPlayerRow(tournamentId, teamId, playerId)}]

\* TeamRepository.addPlayerToTeam, lines 890-959: the message of the error, empty if
\* none, and the rows of team_players afterwards. The message about a player who has a
\* team holds no "Team", so the service replaces it (tournament.ts, lines 1406-1413)
addPlayerToTeam(teamRows, teamPlayerRows, tournamentId, playerId, teamId) ==
    IF ~\E row \in teamRows : row.tournamentId = tournamentId /\ row.id = teamId
    THEN [error |-> <<"Team ", teamId, " does not exist in tournament ", tournamentId>>,
          rows |-> teamPlayerRows]
    ELSE IF Cardinality({row \in teamPlayerRows : row.tournamentId = tournamentId
                                                  /\ row.teamId = teamId}) >= 5
    THEN [error |-> <<"Team ", teamId, " is already full (5 players maximum)">>,
          rows |-> teamPlayerRows]
    ELSE IF getPlayerTeam(teamPlayerRows, tournamentId, playerId) # {}
    THEN [error |-> <<"Failed to add player to team">>, rows |-> teamPlayerRows]
    ELSE [error |-> <<>>,
          rows |-> teamPlayerRows \cup {TeamPlayerRow(tournamentId, teamId, playerId)}]

\* addPlayerToTeam, lines 1371-1416
AddPlayerToTeam(targetPlayerId, teamId) ==
    /\ Idle
    /\ entry' = "addPlayerToTeam"
    /\ args' = [playerId |-> targetPlayerId, teamId |-> teamId]
    /\ result' = NoValue
    /\ IF getOpenTournament(tournaments) = {}
       THEN /\ error' = NoOpenTournament
            /\ UNCHANGED <<tournament, dbTeamPlayers>>
       ELSE \E found \in getOpenTournament(tournaments) :
            /\ tournament' = found
            /\ IF ~teamsExist(found.id, dbTeams)
               THEN /\ error' = TournamentError(<<"No teams have been generated yet">>,
                                                "NO_TEAMS_GENERATED")
                    /\ UNCHANGED dbTeamPlayers
               ELSE IF ~isPlayerInTournament(tournamentPlayers, found.id, targetPlayerId)
               THEN /\ error' = TournamentError(
                                   <<"Player must be in the tournament before being added to a team">>,
                                   "PLAYER_NOT_IN_TOURNAMENT")
                    /\ UNCHANGED dbTeamPlayers
               ELSE \E added \in {addPlayerToTeam(dbTeams, dbTeamPlayers, found.id,
                                                  targetPlayerId, teamId)} :
                    /\ dbTeamPlayers' = added.rows
                    /\ error' = IF added.error = <<>> THEN NoError
                                ELSE TournamentError(added.error, "ADD_PLAYER_FAILED")
    /\ UNCHANGED <<playerTable, tournamentPlayers, adrLocks>>
    /\ ServiceFrame

\* ----------------------------------------- two createTeams calls at once
\* the statements of createTeams, lines 506-537, one by one. The rows the two inserts
\* are given
TeamInserts(tournamentId, data) ==
    {TeamRow(tournamentId, data[t].id, FALSE) : t \in DOMAIN data}
TeamPlayerInserts(tournamentId, data) ==
    {TeamPlayerRow(tournamentId, data[pl[1]].id, data[pl[1]].players[pl[2]]) :
        pl \in PlayerPlaces(data)}

\* delete from team_players where tournamentId, lines 665-667
deleteTeamPlayers(tournamentId, teamPlayerRows) ==
    {row \in teamPlayerRows : row.tournamentId # tournamentId}

\* a delete from teams that deletes nothing
deleteTeamsNone(tournamentId, teamRows) == teamRows

\* delete from teams where tournamentId, line 670
deleteTeams(tournamentId, teamRows) ==
    {row \in teamRows : row.tournamentId # tournamentId}

\* insert into teams, line 517: fails with no rows, with a key twice among the rows or
\* with a key that is stored
insertTeamsFails(tournamentId, data, teamRows) ==
    \/ Len(data) = 0
    \/ Cardinality(TeamInserts(tournamentId, data)) < Len(data)
    \/ \E new \in TeamInserts(tournamentId, data), row \in teamRows :
          row.tournamentId = new.tournamentId /\ row.id = new.id

\* insert into team_players, lines 535-537: fails with a key twice among the rows or
\* with a key that is stored
insertTeamPlayersFails(tournamentId, data, teamPlayerRows) ==
    \/ Cardinality(TeamPlayerInserts(tournamentId, data)) < Cardinality(PlayerPlaces(data))
    \/ TeamPlayerInserts(tournamentId, data) \cap teamPlayerRows # {}

ProcIds == {1, 2}

\* the state the overlapping calls leave alone
OverlapFrame ==
    UNCHANGED <<entry, callNo, firstOutcome, optArgs, optLocals, optResult, error, randUsed,
                optInvoked, firstDiff, runLog, svcVars, tournaments, tournamentPlayers,
                tournament, teamData, genResult, playerTable, matches, matchTeamPlayers,
                args, result, adrLocks>>

\* Promise.allSettled([createTeams(tournamentId, data), createTeams(tournamentId, data)])
CallCreateTeamsTwice(tournamentId, data) ==
    /\ pc = "idle"
    /\ entry' = "createTeams"
    /\ pc' = "overlapping"
    /\ args' = [tournamentId |-> tournamentId, teamData |-> data]
    /\ procs' = [i \in ProcIds |-> [pc |-> "delete_team_players", error |-> NoError]]
    /\ error' = NoError
    /\ result' = NoValue
    /\ UNCHANGED <<callNo, firstOutcome, optArgs, optLocals, optResult, randUsed, optInvoked,
                   firstDiff, runLog, svcVars, genVars, playerTable, matches, matchTeamPlayers,
                   adrLocks>>

\* clearTeams, first statement, of call i
DeleteTeamPlayers(i) ==
    /\ pc = "overlapping"
    /\ procs[i].pc = "delete_team_players"
    /\ dbTeamPlayers' = deleteTeamPlayers(args.tournamentId, dbTeamPlayers)
    /\ procs' = [procs EXCEPT ![i].pc = "delete_teams"]
    /\ UNCHANGED <<pc, dbTeams>>
    /\ OverlapFrame

\* clearTeams, second statement, of call i
DeleteTeams(i) ==
    /\ pc = "overlapping"
    /\ procs[i].pc = "delete_teams"
    /\ dbTeams' = deleteTeams(args.tournamentId, dbTeams)
    /\ procs' = [procs EXCEPT ![i].pc = "insert_teams"]
    /\ UNCHANGED <<pc, dbTeamPlayers>>
    /\ OverlapFrame

\* the insert of the teams of call i; without team players the call returns after it
InsertTeams(i) ==
    /\ pc = "overlapping"
    /\ procs[i].pc = "insert_teams"
    /\ IF insertTeamsFails(args.tournamentId, args.teamData, dbTeams)
       THEN /\ procs' = [procs EXCEPT ![i] = [pc |-> "threw",
                                              error |-> DatabaseError(<<"Failed to create teams">>)]]
            /\ UNCHANGED dbTeams
       ELSE /\ dbTeams' = dbTeams \cup TeamInserts(args.tournamentId, args.teamData)
            /\ procs' = [procs EXCEPT ![i].pc =
                            IF PlayerPlaces(args.teamData) = {} THEN "returned"
                            ELSE "insert_team_players"]
    /\ UNCHANGED <<pc, dbTeamPlayers>>
    /\ OverlapFrame

\* the insert of the team players of call i
InsertTeamPlayers(i) ==
    /\ pc = "overlapping"
    /\ procs[i].pc = "insert_team_players"
    /\ IF insertTeamPlayersFails(args.tournamentId, args.teamData, dbTeamPlayers)
       THEN /\ procs' = [procs EXCEPT ![i] = [pc |-> "threw",
                                              error |-> DatabaseError(<<"Failed to create teams">>)]]
            /\ UNCHANGED dbTeamPlayers
       ELSE /\ dbTeamPlayers' = dbTeamPlayers \cup TeamPlayerInserts(args.tournamentId, args.teamData)
            /\ procs' = [procs EXCEPT ![i].pc = "returned"]
    /\ UNCHANGED <<pc, dbTeams>>
    /\ OverlapFrame

\* both promises are settled
BothSettled == pc = "overlapping" /\ \A i \in ProcIds : procs[i].pc \in {"returned", "threw"}

\* the caller has the two outcomes and goes on
CreateTeamsSettled ==
    /\ BothSettled
    /\ pc' = "idle"
    /\ procs' = <<>>
    /\ UNCHANGED <<dbTeams, dbTeamPlayers>>
    /\ OverlapFrame

\* --------------------------------------- two openTournament calls at once
\* the awaited steps of openTournament, lines 94-136, one by one: getOpenTournament,
\* generateTournamentId, createTournament. Every call keeps the id it generated
OpenFrame ==
    UNCHANGED <<entry, pc, callNo, firstOutcome, optArgs, optLocals, optResult, error, randUsed,
                optInvoked, firstDiff, runLog, svcVars, tournamentPlayers, dbTeams, dbTeamPlayers,
                tournament, teamData, genResult, playerTable, matches, matchTeamPlayers,
                args, result, adrLocks>>

\* two openTournament calls are started on the date today; the calls stop once the
\* table holds maxTournaments tournaments
CallOpenTournamentTwice(today, maxTournaments) ==
    /\ pc = "idle"
    /\ Cardinality(tournaments) < maxTournaments
    /\ entry' = "openTournament"
    /\ pc' = "opening"
    /\ args' = [today |-> today]
    /\ procs' = [i \in ProcIds |-> [pc |-> "get_open_tournament", error |-> NoError,
                                    tournamentId |-> NoTournament.id]]
    /\ error' = NoError
    /\ result' = NoValue
    /\ UNCHANGED <<callNo, firstOutcome, optArgs, optLocals, optResult, randUsed, optInvoked,
                   firstDiff, runLog, svcVars, genVars, playerTable, matches, matchTeamPlayers,
                   adrLocks>>

\* lines 97-103 of call i
ReadOpenTournament(i) ==
    /\ pc = "opening"
    /\ procs[i].pc = "get_open_tournament"
    /\ IF getOpenTournament(tournaments) # {}
       THEN \E existingTournament \in getOpenTournament(tournaments) :
               procs' = [procs EXCEPT ![i].pc = "threw",
                                      ![i].error = TournamentError(
                                          <<"Tournament ", existingTournament.id,
                                            " is already open. Close it before opening a new one.">>,
                                          "TOURNAMENT_ALREADY_OPEN")]
       ELSE procs' = [procs EXCEPT ![i].pc = "generate_id"]
    /\ UNCHANGED tournaments
    /\ OpenFrame

\* lines 106-111 of call i
GenerateId(i) ==
    /\ pc = "opening"
    /\ procs[i].pc = "generate_id"
    /\ procs' = [procs EXCEPT ![i].pc = "create_tournament",
                              ![i].tournamentId = generateTournamentId(args.today, tournaments)]
    /\ UNCHANGED tournaments
    /\ OpenFrame

\* line 114 of call i: the insert fails when the id is stored
InsertTournament(i) ==
    /\ pc = "opening"
    /\ procs[i].pc = "create_tournament"
    /\ IF \E row \in tournaments : row.id = procs[i].tournamentId
       THEN /\ procs' = [procs EXCEPT ![i].pc = "threw",
                                      ![i].error = TournamentError(<<"Failed to open tournament">>,
                                                                   "TOURNAMENT_OPEN_FAILED")]
            /\ UNCHANGED tournaments
       ELSE /\ tournaments' = tournaments \cup {[id |-> procs[i].tournamentId, status |-> "open"]}
            /\ procs' = [procs EXCEPT ![i].pc = "returned"]
    /\ OpenFrame

\* both calls have returned or thrown
OpenSettled ==
    /\ pc = "opening"
    /\ \A i \in ProcIds : procs[i].pc \in {"returned", "threw"}
    /\ pc' = "idle"
    /\ procs' = <<>>
    /\ UNCHANGED <<entry, callNo, firstOutcome, optArgs, optLocals, optResult, error, randUsed,
                   optInvoked, firstDiff, runLog, svcVars, genVars, playerTable, matches,
                   matchTeamPlayers, args, result, adrLocks>>

\* ------------------------------------------------------------- the caller
EntryPc(e) ==
    IF e = "optimizeTeams" THEN "opt_entry"
    ELSE IF e = "generateBalancedTeams" THEN "svc_entry" ELSE "gen_entry"

Returned ==
    \/ entry = "optimizeTeams" /\ pc = "opt_returned"
    \/ entry = "generateBalancedTeams" /\ pc = "svc_returned"
    \/ entry = "generateTeams" /\ pc = "gen_returned"
Threw ==
    \/ entry = "optimizeTeams" /\ pc = "opt_threw"
    \/ entry = "generateBalancedTeams" /\ pc = "svc_threw"
    \/ entry = "generateTeams" /\ pc = "gen_threw"
Finished == Returned \/ Threw

Outcome == [opt |-> optResult, svc |-> svcResult, error |-> error]
NoOutcome == [opt |-> NoResult, svc |-> NoSvcResult, error |-> NoError]

\* the caller keeps the outcome and makes the same call again with the same input
CallAgain ==
    /\ Finished
    /\ callNo = 1
    /\ Len(players) <= RepeatMaxPlayers /\ Len(tplayers) <= RepeatMaxPlayers
    /\ callNo' = 2
    /\ firstOutcome' = Outcome
    /\ pc' = EntryPc(entry)
    /\ run' = 0
    /\ teams' = <<>>
    /\ adrDiff' = 0
    /\ noImprovement' = 0
    /\ bestTeams' = <<>>
    /\ bestDiff' = Infinity
    /\ optResult' = NoResult
    /\ svcResult' = NoSvcResult
    /\ error' = NoError
    /\ randUsed' = FALSE
    /\ optInvoked' = FALSE
    /\ firstDiff' = 0
    /\ runLog' = <<>>
    /\ IF entry = "optimizeTeams"
       THEN UNCHANGED optArgs
       ELSE /\ players' = <<>>
            /\ teamSize' = 0
            /\ maxNoImprovement' = 0
            /\ runs' = 0
    /\ UNCHANGED <<entry, tplayers, cfg, runsArg, genVars>>
    /\ UNCHANGED restVars

\* a generateTeams call once no call is under way, with the run count of the call before
CallGenerateTeams(maxCalls) ==
    /\ Idle
    /\ callNo < maxCalls
    /\ callNo' = callNo + 1
    /\ entry' = "generateTeams"
    /\ pc' = "gen_entry"
    /\ run' = 0
    /\ teams' = <<>>
    /\ adrDiff' = 0
    /\ noImprovement' = 0
    /\ bestTeams' = <<>>
    /\ bestDiff' = Infinity
    /\ optResult' = NoResult
    /\ svcResult' = NoSvcResult
    /\ error' = NoError
    /\ randUsed' = FALSE
    /\ optInvoked' = FALSE
    /\ firstDiff' = 0
    /\ runLog' = <<>>
    /\ players' = <<>>
    /\ teamSize' = 0
    /\ maxNoImprovement' = 0
    /\ runs' = 0
    /\ tplayers' = <<>>
    /\ tournament' = NoTournament
    /\ teamData' = <<>>
    /\ genResult' = <<>>
    /\ UNCHANGED <<firstOutcome, cfg, runsArg, dbVars>>
    /\ UNCHANGED restVars

\* a direct call of TeamRepository.createTeams(tournamentId, data)
CallCreateTeams(tournamentId, data) ==
    /\ pc = "idle"
    /\ entry' = "createTeams"
    /\ callNo' = 1
    /\ pc' = "create_teams"
    /\ tournament' = CHOOSE row \in tournaments : row.id = tournamentId
    /\ teamData' = data
    /\ error' = NoError
    /\ UNCHANGED <<firstOutcome, optArgs, optLocals, optResult, randUsed, optInvoked, firstDiff,
                   runLog, svcVars, dbVars, genResult>>
    /\ UNCHANGED restVars

\* the caller of createTeams makes the same call again once it has returned
CallCreateTeamsAgain ==
    /\ pc = "create_returned"
    /\ entry = "createTeams"
    /\ callNo = 1
    /\ callNo' = 2
    /\ pc' = "create_teams"
    /\ UNCHANGED <<entry, firstOutcome, optArgs, optLocals, optResult, error, randUsed, optInvoked,
                   firstDiff, runLog, svcVars, genVars>>
    /\ UNCHANGED restVars

\* the caller of createTeams has its result or its error
CreateTeamsDone ==
    /\ pc \in {"create_returned", "create_threw"}
    /\ entry = "createTeams"
    /\ pc' = "idle"
    /\ UNCHANGED <<callVars, optArgs, optLocals, optResult, error, randUsed, optInvoked,
                   firstDiff, runLog, svcVars, genVars>>
    /\ UNCHANGED restVars

\* a direct call of TeamRepository.lockTeams(tournamentId), lines 634-643
RepoLockTeams(tournamentId) ==
    /\ pc = "idle"
    /\ entry' = "repoLockTeams"
    /\ dbTeams' = setTeamsLocked(tournamentId, TRUE, dbTeams)
    /\ error' = NoError
    /\ UNCHANGED <<pc, callNo, firstOutcome, optArgs, optLocals, optResult, randUsed, optInvoked,
                   firstDiff, runLog, svcVars, tournaments, tournamentPlayers, dbTeamPlayers,
                   tournament, teamData, genResult>>
    /\ UNCHANGED restVars

\* ----------------------------------------------------------------- inputs
\* rosters of n rated players: equal ratings, rising ratings, one player above the rest
Rosters(n) ==
    {[i \in 1 .. n |-> 5000],
     [i \in 1 .. n |-> 5000 + 1000 * (i - 1)],
     [i \in 1 .. n |-> IF i = 1 THEN 8000 ELSE 5000]}
TeamgenPlayers(n) ==
    {[i \in 1 .. n |-> [name |-> "P" \o ToString(i), adr |-> a[i], ref |-> i]] : a \in Rosters(n)}

\* ratings of TournamentPlayer objects: the ends of the valid range, and a missing, a
\* non-numeric, a negative and a too high one; they vary for the first two players
SvcAdr == {Num(0), Num(99999), Undefined, Str, Num(-500), Num(100000)}
SvcRosters(n) ==
    {a \in [1 .. n -> SvcAdr] : \A i \in 1 .. n : i > 2 => a[i] = Num(99999)}
SvcPlayers(n) ==
    {[i \in 1 .. n |-> [id |-> "id" \o ToString(i), username |-> "user" \o ToString(i),
                        display_name |-> "", adr |-> a[i]]] : a \in SvcRosters(n)}
SvcRuns == {Undefined, Str, Num(0), Num(-2), Num(2), Num(3),
            Num(2 * MaxRuns), Num(2 * MaxRuns + 1)}
DefaultCfg == [defaultRuns |-> DefaultRuns, maxRuns |-> MaxRuns, teamSize |-> DefaultTeamSize]

InitLocals ==
    /\ callNo = 1
    /\ firstOutcome = NoOutcome
    /\ run = 0
    /\ teams = <<>>
    /\ adrDiff = 0
    /\ noImprovement = 0
    /\ bestTeams = <<>>
    /\ bestDiff = Infinity
    /\ optResult = NoResult
    /\ svcResult = NoSvcResult
    /\ error = NoError
    /\ randUsed = FALSE
    /\ optInvoked = FALSE
    /\ firstDiff = 0
    /\ runLog = <<>>
    /\ teamData = <<>>
    /\ genResult = <<>>
    /\ matches = {}
    /\ matchTeamPlayers = {}
    /\ args = NoArgs
    /\ result = NoValue
    /\ procs = <<>>
    /\ adrLocks = {}

NoDatabase ==
    /\ tournaments = {}
    /\ tournamentPlayers = <<>>
    /\ playerTable = {}
    /\ dbTeams = {}
    /\ dbTeamPlayers = {}
    /\ tournament = NoTournament

\* a direct call of optimizeTeams on a non-empty roster; runs is a number the caller
\* chooses: -1, 0 or a positive count
InitOptimizeTeams ==
    /\ entry = "optimizeTeams"
    /\ pc = "opt_entry"
    /\ \E n \in 1 .. MaxPlayers : players \in TeamgenPlayers(n)
    /\ teamSize \in 1 .. MaxPlayers
    /\ maxNoImprovement \in 0 .. MaxNoImprove
    /\ runs \in {2 * r : r \in -1 .. RunCap}
    /\ tplayers = <<>>
    /\ cfg = DefaultCfg
    /\ runsArg = Undefined
    /\ NoDatabase
    /\ InitLocals

\* a call of generateBalancedTeams on a service constructed with a team size
InitGenerateBalancedTeams ==
    /\ entry = "generateBalancedTeams"
    /\ pc = "svc_entry"
    /\ \E n \in 0 .. MaxPlayers : tplayers \in SvcPlayers(n)
    /\ \E size \in 1 .. MaxPlayers : cfg = [DefaultCfg EXCEPT !.teamSize = size]
    /\ runsArg \in SvcRuns
    /\ players = <<>>
    /\ teamSize = 0
    /\ maxNoImprovement = 0
    /\ runs = 0
    /\ NoDatabase
    /\ InitLocals

Init == InitOptimizeTeams \/ InitGenerateBalancedTeams

\* every outcome of Math.floor(Math.random() * m) for m up to MaxPlayers
Random == RandomSource(MaxPlayers, MaxPlayers)

Next ==
    \/ OptimizeTeamsEntry
    \/ RunStart(Random, RunCap)
    \/ SwapAttempt(Random, MaxNoImprove)
    \/ RunEnd(MaxNoImprove)
    \/ OptimizeTeamsReturn(RunCap)
    \/ GenerateBalancedTeamsStart
    \/ GenerateBalancedTeamsFinish
    \/ GenerateBalancedTeamsCatch
    \/ CallAgain

Spec == Init /\ [][Next]_vars

\* ------------------------------------------- the deployed configuration
\* TournamentService.generateTeams with the service the command handler constructs
\* (team size 5), on the tournament's players; 50 runs requested
RandGridProd == 2
RunCapProd == 1
MaxNoImproveProd == 1
ProdSizes == {0, 5, 7, 10}
ProdAdr(i) == Num(5000 + 1000 * (i - 1))
\* display names: all distinct; players 1 and 2 with the same display name; player 1
\* named as the username of player 2, who has no display name
ProdNames ==
    {[i \in 1 .. 10 |-> [username |-> "user" \o ToString(i), displayName |-> "name" \o ToString(i)]],
     [i \in 1 .. 10 |-> [username |-> "user" \o ToString(i),
                         displayName |-> IF i <= 2 THEN "same" ELSE "name" \o ToString(i)]],
     [i \in 1 .. 10 |-> [username |-> "user" \o ToString(i),
                         displayName |-> IF i = 1 THEN "user2" ELSE IF i = 2 THEN ""
                                         ELSE "name" \o ToString(i)]]}
\* the players table: ten registered players under the names
ProdRegistry(names) ==
    {[id |-> "id" \o ToString(i), username |-> names[i].username,
      displayName |-> names[i].displayName, defaultAdr |-> Null] : i \in 1 .. 10}
\* an earlier, closed tournament with its teams, and the tournament of today
EarlierId == TournamentId("2025-08-30", 1)
TodayId == TournamentId("2025-08-31", 1)
\* the tournament_players table: two players of the earlier tournament, then the first
\* n registered players in the tournament of today, one of them without a rating
EarlierPlayers ==
    <<TournamentPlayerRow(EarlierId, "id1", ProdAdr(1), TRUE),
      TournamentPlayerRow(EarlierId, "id2", ProdAdr(2), FALSE)>>
TodayPlayers(n, missing) ==
    [i \in 1 .. n |-> TournamentPlayerRow(TodayId, "id" \o ToString(i),
                                          IF i = missing THEN Null ELSE ProdAdr(i), FALSE)]
ProdPlayers ==
    {EarlierPlayers \o TodayPlayers(n, missing) : n \in ProdSizes, missing \in {0, 1}}
EarlierTeams == {TeamRow(EarlierId, "TEAM1", TRUE), TeamRow(EarlierId, "TEAM2", TRUE)}
EarlierTeamPlayers ==
    {TeamPlayerRow(EarlierId, "TEAM1", "id1"), TeamPlayerRow(EarlierId, "TEAM2", "id2")}
ProdTeams ==
    {{}} \cup {{TeamRow(TodayId, "TEAM1", l), TeamRow(TodayId, "TEAM2", l)} : l \in BOOLEAN}

InitProd ==
    /\ entry = "generateTeams"
    /\ pc = "gen_entry"
    /\ \E status \in {"open", "closed"} :
          tournaments = {[id |-> EarlierId, status |-> "closed"], [id |-> TodayId, status |-> status]}
    /\ tournamentPlayers \in ProdPlayers
    /\ \E names \in ProdNames : playerTable = ProdRegistry(names)
    /\ \E today \in ProdTeams :
          /\ dbTeams = EarlierTeams \cup today
          /\ dbTeamPlayers = EarlierTeamPlayers
                              \cup {TeamPlayerRow(TodayId, t.id, t.id \o "-old") : t \in today}
    /\ tournament = NoTournament
    /\ tplayers = <<>>
    /\ cfg = DefaultCfg
    /\ runsArg = Num(2 * 50)
    /\ players = <<>>
    /\ teamSize = 0
    /\ maxNoImprovement = 0
    /\ runs = 0
    /\ InitLocals

RandomProd == RandomSource(RandGridProd, 10)

NextProd ==
    \/ GenerateTeamsStart
    \/ GenerateBalancedTeamsStart
    \/ OptimizeTeamsEntry
    \/ RunStart(RandomProd, RunCapProd)
    \/ SwapAttempt(RandomProd, MaxNoImproveProd)
    \/ RunEnd(MaxNoImproveProd)
    \/ OptimizeTeamsReturn(RunCapProd)
    \/ GenerateBalancedTeamsFinish
    \/ GenerateBalancedTeamsCatch
    \/ GenerateTeamsMap
    \/ CreateTeams
    \/ GenerateTeamsReturn
    \/ GenerateTeamsCatch

SpecProd == InitProd /\ [][NextProd]_vars

\* ------------------------------------------- the budget of every run count
\* generateBalancedTeams on the default service's run limits, with every whole
\* run count from 0 to one above the maximum, on one player and on two players
\* in teams of one
BudgetRuns == {Undefined} \cup {Num(2 * r) : r \in 0 .. (MaxRuns + 1)}
BudgetPlayers ==
    {[i \in 1 .. n |-> [id |-> "id" \o ToString(i), username |-> "user" \o ToString(i),
                        display_name |-> "", adr |-> Num(5000 + 1000 * (i - 1))]] : n \in 1 .. 2}

InitBudget ==
    /\ entry = "generateBalancedTeams"
    /\ pc = "svc_entry"
    /\ tplayers \in BudgetPlayers
    /\ cfg = [DefaultCfg EXCEPT !.teamSize = 1]
    /\ runsArg \in BudgetRuns
    /\ players = <<>>
    /\ teamSize = 0
    /\ maxNoImprovement = 0
    /\ runs = 0
    /\ NoDatabase
    /\ InitLocals

NextBudget ==
    \/ GenerateBalancedTeamsStart
    \/ OptimizeTeamsEntry
    \/ RunStart(Random, RunCap)
    \/ SwapAttempt(Random, MaxNoImprove)
    \/ RunEnd(MaxNoImprove)
    \/ OptimizeTeamsReturn(RunCap)
    \/ GenerateBalancedTeamsFinish
    \/ GenerateBalancedTeamsCatch

SpecBudget == InitBudget /\ [][NextBudget]_vars

\* ------------------------------------ opening and closing tournaments
\* calls of openTournament and closeTournament, one after the other, on a database
\* without tournaments; the calls fall on one of two days
MaxTournaments == 5
Dates == {"2025-08-30", "2025-08-31"}

InitTournament ==
    /\ entry = "none"
    /\ pc = "idle"
    /\ tplayers = <<>>
    /\ cfg = DefaultCfg
    /\ runsArg = Undefined
    /\ players = <<>>
    /\ teamSize = 0
    /\ maxNoImprovement = 0
    /\ runs = 0
    /\ NoDatabase
    /\ InitLocals

NextTournament ==
    \/ \E today \in Dates : OpenTournament(today, MaxTournaments)
    \/ CloseTournament

SpecTournament == InitTournament /\ [][NextTournament]_vars

\* ------------------------------------------------ locking the teams
\* generateTeams, lockTeams and unlockTeams called one after the other on the open
\* tournament of today: five, seven or ten players, all rated or the first without a
\* rating; no teams yet, or two teams stored before, locked or not
RandGridLock == 1
RunCapLock == 1
MaxNoImproveLock == 1
MaxCallsLock == 3
LockPlayers ==
    {EarlierPlayers \o TodayPlayers(n, missing) : n \in {5, 7, 10}, missing \in {0, 1}}
LockRegistry ==
    ProdRegistry([i \in 1 .. 10 |-> [username |-> "user" \o ToString(i),
                                     displayName |-> "name" \o ToString(i)]])

InitLock ==
    /\ entry = "generateTeams"
    /\ pc = "gen_entry"
    /\ tournaments = {[id |-> EarlierId, status |-> "closed"], [id |-> TodayId, status |-> "open"]}
    /\ tournamentPlayers \in LockPlayers
    /\ playerTable = LockRegistry
    /\ \E today \in ProdTeams :
          /\ dbTeams = EarlierTeams \cup today
          /\ dbTeamPlayers = EarlierTeamPlayers
                              \cup {TeamPlayerRow(TodayId, t.id, t.id \o "-old") : t \in today}
    /\ tournament = NoTournament
    /\ tplayers = <<>>
    /\ cfg = DefaultCfg
    /\ runsArg = Num(2 * 50)
    /\ players = <<>>
    /\ teamSize = 0
    /\ maxNoImprovement = 0
    /\ runs = 0
    /\ InitLocals

RandomLock == RandomSource(RandGridLock, 10)

NextLock ==
    \/ GenerateTeamsStart
    \/ GenerateBalancedTeamsStart
    \/ OptimizeTeamsEntry
    \/ RunStart(RandomLock, RunCapLock)
    \/ SwapAttempt(RandomLock, MaxNoImproveLock)
    \/ RunEnd(MaxNoImproveLock)
    \/ OptimizeTeamsReturn(RunCapLock)
    \/ GenerateBalancedTeamsFinish
    \/ GenerateBalancedTeamsCatch
    \/ GenerateTeamsMap
    \/ CreateTeams
    \/ GenerateTeamsReturn
    \/ GenerateTeamsCatch
    \/ LockTeams
    \/ UnlockTeams
    \/ CallGenerateTeams(MaxCallsLock)

SpecLock == InitLock /\ [][NextLock]_vars

\* ------------------------------------------------ replacing the teams
\* TeamRepository.createTeams and lockTeams called one after the other on the two
\* tournaments, from tables that hold the teams of the earlier one; the team data are
\* of registered players
RepoTournaments == {EarlierId, TodayId}
RepoTeam(id, playerIds) == [id |-> id, players |-> playerIds]
RepoTeamData ==
    {<<RepoTeam("TEAM1", <<"id1", "id2">>), RepoTeam("TEAM2", <<"id3", "id4">>)>>,
     <<RepoTeam("TEAM1", <<"id3">>)>>,
     <<RepoTeam("TEAM3", <<"id1">>), RepoTeam("TEAM1", <<>>)>>,
     <<RepoTeam("TEAM2", <<>>)>>,
     <<RepoTeam("TEAM1", <<"id1", "id2">>), RepoTeam("TEAM2", <<"id2">>)>>,
     <<RepoTeam("TEAM1", <<"id1", "id1">>)>>,
     <<RepoTeam("TEAM1", <<"id1">>), RepoTeam("TEAM1", <<"id2">>)>>,
     <<>>}

InitRepo ==
    /\ entry = "none"
    /\ pc = "idle"
    /\ tournaments = {[id |-> EarlierId, status |-> "closed"], [id |-> TodayId, status |-> "open"]}
    /\ tournamentPlayers = <<>>
    /\ playerTable = LockRegistry
    /\ dbTeams = EarlierTeams
    /\ dbTeamPlayers = EarlierTeamPlayers
    /\ tournament = NoTournament
    /\ tplayers = <<>>
    /\ cfg = DefaultCfg
    /\ runsArg = Undefined
    /\ players = <<>>
    /\ teamSize = 0
    /\ maxNoImprovement = 0
    /\ runs = 0
    /\ InitLocals

NextRepo ==
    \/ \E tournamentId \in RepoTournaments, data \in RepoTeamData : CallCreateTeams(tournamentId, data)
    \/ CreateTeams
    \/ CallCreateTeamsAgain
    \/ CreateTeamsDone
    \/ \E tournamentId \in RepoTournaments : RepoLockTeams(tournamentId)

SpecRepo == InitRepo /\ [][NextRepo]_vars

\* ------------------------------------------------------ tournament ids
\* TournamentRepository.generateTournamentId and createTournament called one after the
\* other, from any table that holds ids 1 .. MaxSequence of the first date, with or
\* without gaps, and a tournament of the second date
MaxSequence == 11
MaxIds == 12
InitIds ==
    /\ entry = "none"
    /\ pc = "idle"
    /\ \E numbers \in SUBSET (1 .. MaxSequence) :
          tournaments = {[id |-> TournamentId("2025-08-30", n), status |-> "closed"] : n \in numbers}
                         \cup {[id |-> TodayId, status |-> "closed"]}
    /\ tournamentPlayers = <<>>
    /\ playerTable = {}
    /\ dbTeams = {}
    /\ dbTeamPlayers = {}
    /\ tournament = NoTournament
    /\ tplayers = <<>>
    /\ cfg = DefaultCfg
    /\ runsArg = Undefined
    /\ players = <<>>
    /\ teamSize = 0
    /\ maxNoImprovement = 0
    /\ runs = 0
    /\ InitLocals

NextIds ==
    \/ \E date \in Dates : GenerateTournamentId(date, MaxIds)
    \/ CreateTournament

SpecIds == InitIds /\ [][NextIds]_vars

\* --------------------------------------------------- recording matches
\* recordMatch called again and again on the tournament of today, open or closed, which
\* has the teams TEAM1 and TEAM2; the earlier tournament also has a TEAM3
MaxMatches == 2
\* well-formed strings that name TEAM1 and TEAM2
RecordableStrings ==
    {<<"T", "E", "A", "M", "1", "-", "1", "6", "-", "1", "4", "-", "T", "E", "A", "M", "2">>,
     <<"T", "E", "A", "M", "2", "-", "0", "-", "1", "6", "-", "T", "E", "A", "M", "1">>,
     <<"T", "E", "A", "M", "1", "-", "0", "0", "7", "-", "5", "-", "T", "E", "A", "M", "2">>}
\* well-formed strings that name one team twice
SameTeamStrings ==
    {<<"T", "E", "A", "M", "1", "-", "1", "6", "-", "1", "4", "-", "T", "E", "A", "M", "1">>,
     <<"T", "E", "A", "M", "3", "-", "1", "-", "2", "-", "T", "E", "A", "M", "3">>}
\* well-formed strings that name a team the tournament of today has not
MissingTeamStrings ==
    {<<"T", "E", "A", "M", "1", "-", "1", "6", "-", "1", "4", "-", "T", "E", "A", "M", "3">>,
     <<"T", "E", "A", "M", "4", "-", "1", "-", "2", "-", "T", "E", "A", "M", "2">>,
     <<"T", "E", "A", "M", "3", "-", "1", "-", "2", "-", "T", "E", "A", "M", "4">>,
     <<"T", "-", "1", "-", "2", "-", "T", "E", "A", "M", "1">>}
\* strings the pattern /^([A-Z0-9]+)-(\d+)-(\d+)-([A-Z0-9]+)$/ does not match
MalformedStrings ==
    {<<>>,
     <<"i", "n", "v", "a", "l", "i", "d", "-", "f", "o", "r", "m", "a", "t">>,
     <<"T", "E", "A", "M", "1", "-", "1", "6", "-", "1", "4">>,
     <<"T", "E", "A", "M", "1", "-", "-", "1", "-", "1", "4", "-", "T", "E", "A", "M", "2">>,
     <<"t", "e", "a", "m", "1", "-", "1", "6", "-", "1", "4", "-", "T", "E", "A", "M", "2">>,
     <<"T", "E", "A", "M", "1", "-", "1", "6", "-", "1", "4", "-", "T", "E", "A", "M", "2", "-">>,
     <<"T", "E", "A", "M", "1", "-", "A", "-", "1", "4", "-", "T", "E", "A", "M", "2">>,
     <<" ", "T", "E", "A", "M", "1", "-", "1", "6", "-", "1", "4", "-", "T", "E", "A", "M", "2">>,
     <<"T", "E", "A", "M", "1", "-", "1", "6", "-", "1", "4", "-", "T", "E", "A", "M", "2", "-", "T", "E", "A", "M", "3">>,
     <<"T", "E", "A", "M", "1", "-", "1", "6", ".", "5", "-", "1", "4", "-", "T", "E", "A", "M", "2">>,
     <<"T", "E", "A", "M", "1", ":", "1", "6", ":", "1", "4", ":", "T", "E", "A", "M", "2">>,
     <<"-", "1", "6", "-", "1", "4", "-", "T", "E", "A", "M", "2">>,
     <<"T", "E", "A", "M", "1", "-", "1", "6", "-", "1", "4", "-", "T", "e", "a", "m", "2">>}
MatchStrings == RecordableStrings \cup SameTeamStrings \cup MissingTeamStrings \cup MalformedStrings

MatchTeams ==
    EarlierTeams \cup {TeamRow(EarlierId, "TEAM3", TRUE),
                       TeamRow(TodayId, "TEAM1", FALSE), TeamRow(TodayId, "TEAM2", FALSE)}
\* id9 is on TEAM2 and has left the tournament
MatchTeamPlayers ==
    EarlierTeamPlayers \cup {TeamPlayerRow(TodayId, "TEAM1", "id1"), TeamPlayerRow(TodayId, "TEAM1", "id2"),
                             TeamPlayerRow(TodayId, "TEAM2", "id3"), TeamPlayerRow(TodayId, "TEAM2", "id9")}

InitMatch ==
    /\ entry = "none"
    /\ pc = "idle"
    /\ \E status \in {"open", "closed"} :
          tournaments = {[id |-> EarlierId, status |-> "closed"], [id |-> TodayId, status |-> status]}
    /\ tournamentPlayers = EarlierPlayers \o TodayPlayers(4, 0)
    /\ playerTable = LockRegistry
    /\ dbTeams = MatchTeams
    /\ dbTeamPlayers = MatchTeamPlayers
    /\ tournament = NoTournament
    /\ tplayers = <<>>
    /\ cfg = DefaultCfg
    /\ runsArg = Undefined
    /\ players = <<>>
    /\ teamSize = 0
    /\ maxNoImprovement = 0
    /\ runs = 0
    /\ InitLocals

NextMatch == \E matchString \in MatchStrings : RecordMatch(matchString, MaxMatches)

SpecMatch == InitMatch /\ [][NextMatch]_vars

\* ------------------------------------------------- submitting ratings
\* the tournament of today, open or closed, with player id1 in it; id1 and id2 submit
\* ratings, join and leave, and an admin submits for them, locks and unlocks
AdrPlayers ==
    {[id |-> "id1", username |-> "user1", displayName |-> "name1"],
     [id |-> "id2", username |-> "user2", displayName |-> "name2"]}
SelfAdr == {Num(8000), Num(9000)}
AdminAdr == {Num(7000), Null}

InitAdr ==
    /\ entry = "none"
    /\ pc = "idle"
    /\ \E status \in {"open", "closed"} :
          tournaments = {[id |-> EarlierId, status |-> "closed"], [id |-> TodayId, status |-> status]}
    /\ tournamentPlayers = EarlierPlayers \o TodayPlayers(1, 0)
    /\ playerTable = LockRegistry
    /\ dbTeams = EarlierTeams
    /\ dbTeamPlayers = EarlierTeamPlayers
    /\ tournament = NoTournament
    /\ tplayers = <<>>
    /\ cfg = DefaultCfg
    /\ runsArg = Undefined
    /\ players = <<>>
    /\ teamSize = 0
    /\ maxNoImprovement = 0
    /\ runs = 0
    /\ InitLocals

NextAdr ==
    \/ \E who \in AdrPlayers, adr \in SelfAdr : SubmitPlayerAdr(who, adr)
    \/ \E who \in AdrPlayers, adr \in AdminAdr, lock \in BOOLEAN : SubmitAdminAdr(who, adr, lock)
    \/ \E who \in AdrPlayers : LockPlayerAdr(who.id)
    \/ \E who \in AdrPlayers : UnlockPlayerAdr(who.id)
    \/ \E who \in AdrPlayers : JoinTournament(who)
    \/ \E who \in AdrPlayers : LeaveTournament(who.id)

SpecAdr == InitAdr /\ [][NextAdr]_vars

\* ------------------------------------------------ changing the teams
\* the open tournament of today with five or ten rated players and no teams yet;
\* generateTeams is called up to MaxCallsTeams times, players leave and join, an admin
\* exchanges players and adds players to teams. id11 joins late, id99 never joins
RandGridTeams == 1
RunCapTeams == 1
MaxNoImproveTeams == 1
MaxCallsTeams == 2
TeamsPlayers == {EarlierPlayers \o TodayPlayers(n, 0) : n \in {5, 10}}
Joiners == {[id |-> "id11", username |-> "user11", displayName |-> "name11"]}
Leavers == {"id1", "id6"}
ExchangePairs == {<<"id1", "id6">>, <<"id6", "id1">>, <<"id1", "id2">>, <<"id2", "id7">>,
                  <<"id1", "id11">>, <<"id11", "id2">>, <<"id1", "id99">>, <<"id2", "id2">>}
AddedPlayers == {"id1", "id2", "id11", "id99"}
AddedTeams == {"TEAM1", "TEAM2", "TEAM9"}

InitTeams ==
    /\ entry = "generateTeams"
    /\ pc = "gen_entry"
    /\ tournaments = {[id |-> EarlierId, status |-> "closed"], [id |-> TodayId, status |-> "open"]}
    /\ tournamentPlayers \in TeamsPlayers
    /\ playerTable = LockRegistry
    /\ dbTeams = EarlierTeams
    /\ dbTeamPlayers = EarlierTeamPlayers
    /\ tournament = NoTournament
    /\ tplayers = <<>>
    /\ cfg = DefaultCfg
    /\ runsArg = Num(2 * 50)
    /\ players = <<>>
    /\ teamSize = 0
    /\ maxNoImprovement = 0
    /\ runs = 0
    /\ InitLocals

RandomTeams == RandomSource(RandGridTeams, 10)

NextTeams ==
    \/ GenerateTeamsStart
    \/ GenerateBalancedTeamsStart
    \/ OptimizeTeamsEntry
    \/ RunStart(RandomTeams, RunCapTeams)
    \/ SwapAttempt(RandomTeams, MaxNoImproveTeams)
    \/ RunEnd(MaxNoImproveTeams)
    \/ OptimizeTeamsReturn(RunCapTeams)
    \/ GenerateBalancedTeamsFinish
    \/ GenerateBalancedTeamsCatch
    \/ GenerateTeamsMap
    \/ CreateTeams
    \/ GenerateTeamsReturn
    \/ GenerateTeamsCatch
    \/ CallGenerateTeams(MaxCallsTeams)
    \/ \E pair \in ExchangePairs : ExchangePlayers(pair[1], pair[2])
    \/ \E playerId \in AddedPlayers, teamId \in AddedTeams : AddPlayerToTeam(playerId, teamId)
    \/ \E playerId \in Leavers : LeaveTournament(playerId)
    \/ \E who \in Joiners : JoinTournament(who)

SpecTeams == InitTeams /\ [][NextTeams]_vars

\* -------------------------------------------- overlapping createTeams
\* pairs of createTeams calls with the same arguments, one pair after the other, on the
\* tournament of today, which starts without teams or with teams stored before
OverlapTeamData ==
    {<<RepoTeam("TEAM1", <<"id1", "id2">>), RepoTeam("TEAM2", <<"id3", "id4">>)>>,
     <<RepoTeam("TEAM1", <<"id3">>)>>,
     <<RepoTeam("TEAM3", <<"id1">>), RepoTeam("TEAM1", <<>>)>>,
     <<RepoTeam("TEAM2", <<>>)>>,
     <<RepoTeam("TEAM1", <<"id1", "id2">>), RepoTeam("TEAM2", <<"id2">>)>>}

InitOverlap ==
    /\ entry = "none"
    /\ pc = "idle"
    /\ tournaments = {[id |-> EarlierId, status |-> "closed"], [id |-> TodayId, status |-> "open"]}
    /\ tournamentPlayers = <<>>
    /\ playerTable = LockRegistry
    /\ \E today \in ProdTeams :
          /\ dbTeams = EarlierTeams \cup today
          /\ dbTeamPlayers = EarlierTeamPlayers
                              \cup {TeamPlayerRow(TodayId, t.id, "id1") : t \in today}
    /\ tournament = NoTournament
    /\ tplayers = <<>>
    /\ cfg = DefaultCfg
    /\ runsArg = Undefined
    /\ players = <<>>
    /\ teamSize = 0
    /\ maxNoImprovement = 0
    /\ runs = 0
    /\ InitLocals

NextOverlap ==
    \/ \E tournamentId \in RepoTournaments, data \in OverlapTeamData :
          CallCreateTeamsTwice(tournamentId, data)
    \/ \E i \in ProcIds : DeleteTeamPlayers(i)
    \/ \E i \in ProcIds : DeleteTeams(i)
    \/ \E i \in ProcIds : InsertTeams(i)
    \/ \E i \in ProcIds : InsertTeamPlayers(i)
    \/ CreateTeamsSettled

SpecOverlap == InitOverlap /\ [][NextOverlap]_vars

\* ------------------------------------------ overlapping openTournament
\* pairs of openTournament calls and closeTournament calls on a table that starts
\* empty or with a closed tournament
MaxOpened == 4

InitOpening ==
    /\ entry = "none"
    /\ pc = "idle"
    /\ tournaments \in {{}, {[id |-> EarlierId, status |-> "closed"]}}
    /\ tournamentPlayers = <<>>
    /\ playerTable = {}
    /\ dbTeams = {}
    /\ dbTeamPlayers = {}
    /\ tournament = NoTournament
    /\ tplayers = <<>>
    /\ cfg = DefaultCfg
    /\ runsArg = Undefined
    /\ players = <<>>
    /\ teamSize = 0
    /\ maxNoImprovement = 0
    /\ runs = 0
    /\ InitLocals

NextOpening ==
    \/ \E today \in Dates : CallOpenTournamentTwice(today, MaxOpened)
    \/ \E i \in ProcIds : ReadOpenTournament(i)
    \/ \E i \in ProcIds : GenerateId(i)
    \/ \E i \in ProcIds : InsertTournament(i)
    \/ OpenSettled
    \/ CloseTournament

SpecOpening == InitOpening /\ [][NextOpening]_vars

\* ------------------------------------------------------------------ claims
\* the teams and positions at which a player object is placed
Places(ts, p) == {<<t, k>> \in (DOMAIN ts) \X (1 .. Len(players)) :
                     k \in DOMAIN ts[t].players /\ ts[t].players[k] = p}

\* C1: what optimizeTeams returns is a partition of its roster: N / teamSize teams of
\* teamSize members each, every input player a member of exactly one team
C1_ReturnsPartition ==
    (pc = "opt_returned" /\ runs >= 2) =>
        /\ Len(optResult.teams) * teamSize = Len(players)
        /\ \A t \in DOMAIN optResult.teams : Len(optResult.teams[t].players) = teamSize
        /\ \A i \in DOMAIN players : Cardinality(Places(optResult.teams, players[i])) = 1

C1_Witness ==
    /\ pc = "opt_returned"
    /\ Len(players) = 4 /\ teamSize = 2 /\ run = 2
    /\ optResult.adrDiff < firstDiff

\* C2: the spread optimizeTeams returns is the largest minus the smallest total of the
\* returned teams, and each returned total is the sum of the team's members' ratings
C2_SpreadConsistent ==
    (pc = "opt_returned" /\ runs >= 2) =>
        /\ \A t \in DOMAIN optResult.teams :
              optResult.teams[t].totalAdr = SumAdr(optResult.teams[t].players)
        /\ optResult.adrDiff =
              SetMax({optResult.teams[t].totalAdr : t \in DOMAIN optResult.teams})
              - SetMin({optResult.teams[t].totalAdr : t \in DOMAIN optResult.teams})

C2_Witness ==
    /\ pc = "opt_returned"
    /\ optResult.adrDiff > 0
    /\ optResult.adrDiff < firstDiff

\* C3: the spread optimizeTeams returns is never greater than the spread of the first
\* run's round-robin assignment
C3_NotWorseThanFirst ==
    (pc = "opt_returned" /\ runs >= 2) => optResult.adrDiff <= firstDiff

C3_Witness ==
    /\ pc = "opt_returned"
    /\ run = 2
    /\ firstDiff > 0
    /\ optResult.adrDiff = 0

\* C4 as stated: for the ratings 50, 60, ... 140, team size 5 and 50 runs, team
\* generation returns two teams of total 475 each and a spread of 0
C4Roster ==
    /\ Len(tplayers) = 10
    /\ \A i \in 1 .. 10 : tplayers[i].adr = ProdAdr(i)
    /\ cfg.teamSize = 5
    /\ runsArg = Num(2 * 50)

C4_PerfectBalanceFound ==
    (C4Roster /\ pc = "svc_returned") =>
        /\ svcResult.adr_difference = 0
        /\ Len(svcResult.teams) = 2
        /\ \A t \in DOMAIN svcResult.teams : svcResult.teams[t].total_adr = 47500

\* C4 amended: for that roster team generation returns two teams whose totals are
\* multiples of 10 that add up to 950, so never 475 and 475; the spread is their
\* difference and at least 10
C4_TotalsAreMultiplesOfTen ==
    (C4Roster /\ pc = "svc_returned") =>
        /\ Len(svcResult.teams) = 2
        /\ \A t \in DOMAIN svcResult.teams :
              /\ Len(svcResult.teams[t].players) = 5
              /\ svcResult.teams[t].total_adr % 1000 = 0
        /\ svcResult.teams[1].total_adr + svcResult.teams[2].total_adr = 95000
        /\ svcResult.adr_difference >= 1000
        /\ svcResult.adr_difference \in
              {svcResult.teams[1].total_adr - svcResult.teams[2].total_adr,
               svcResult.teams[2].total_adr - svcResult.teams[1].total_adr}

C4_Witness ==
    /\ C4Roster
    /\ pc = "svc_returned"
    /\ svcResult.adr_difference = 1000
    /\ {svcResult.teams[t].total_adr : t \in DOMAIN svcResult.teams} = {47000, 48000}

\* C5: with a roster of exactly teamSize players optimizeTeams does not throw, and
\* returns a single team holding the whole roster and a spread of 0
C5_SingleTeamReturns ==
    (entry = "optimizeTeams" /\ Len(players) = teamSize /\ runs >= 2) =>
        /\ pc # "opt_threw"
        /\ pc = "opt_returned" =>
              /\ Len(optResult.teams) = 1
              /\ Len(optResult.teams[1].players) = Len(players)
              /\ optResult.adrDiff = 0

\* C6: the team data generateTeams hands to createTeams holds every tournament
\* player's id exactly once over all teams, whatever the display names
C6_EveryIdOnce ==
    pc = "create_teams" =>
        \A i \in {x \in DOMAIN tournamentPlayers : tournamentPlayers[x].tournamentId = tournament.id} :
            Cardinality({<<t, k>> \in (DOMAIN teamData) \X (1 .. DefaultTeamSize) :
                            teamData[t].players[k] = tournamentPlayers[i].playerId}) = 1

\* C7: a roster that is not empty and divisible, with a participant whose rating is
\* missing, non-numeric or out of range, is rejected with one error that names every
\* such participant, and optimizeTeams is not invoked
BadRating(p) == AdrMissing(p) \/ AdrInvalid(p)

C7_AllViolatorsListed ==
    (/\ entry = "generateBalancedTeams"
     /\ pc # "svc_entry"
     /\ Len(tplayers) > 0
     /\ Len(tplayers) % cfg.teamSize = 0
     /\ \E i \in DOMAIN tplayers : BadRating(tplayers[i])) =>
        /\ pc = "svc_threw"
        /\ ~optInvoked
        /\ \A i \in DOMAIN tplayers :
              BadRating(tplayers[i]) => tplayers[i].username \in Range(error.message)

\* C8: a non-empty roster whose size is not divisible by the team size is rejected
\* with the count error before any random choice; the service's message holds the
\* count and the divisor
C8_NotDivisibleRejected ==
    /\ (/\ entry = "generateBalancedTeams"
        /\ pc # "svc_entry"
        /\ Len(tplayers) > 0
        /\ Len(tplayers) % cfg.teamSize # 0) =>
          /\ pc = "svc_threw"
          /\ error.name = "TeamGenerationError"
          /\ error.message[1] = "Player count ("
          /\ ToString(Len(tplayers)) \in Range(error.message)
          /\ ToString(cfg.teamSize) \in Range(error.message)
          /\ ~randUsed
          /\ ~optInvoked
    /\ (/\ entry = "optimizeTeams"
        /\ pc # "opt_entry"
        /\ Len(players) % teamSize # 0) =>
          /\ pc = "opt_threw"
          /\ error.name = "Error"
          /\ error.message[1] = "Player count must be a multiple of "
          /\ ~randUsed
          /\ teams = <<>>

C8_Witness ==
    /\ entry = "generateBalancedTeams"
    /\ pc = "svc_threw"
    /\ Len(tplayers) = 3
    /\ cfg.teamSize = 2
    /\ error.message = <<"Player count (", "3", ") must be divisible by team size (", "2", ")">>

\* C9: on a valid roster, runs not supplied resolves to the default; a supplied
\* positive integer up to the maximum is taken as it is; any other value is rejected
\* with the run-count error before optimizeTeams is invoked; optimizeTeams gets the
\* resolved count, which is reported as optimization_runs
RunCountError(e) ==
    /\ e.name = "TeamGenerationError"
    /\ e.message[1] \in {"Optimization runs must be a positive number", "Optimization runs ("}

C9_RunsResolved ==
    (/\ entry = "generateBalancedTeams"
     /\ pc # "svc_entry"
     /\ validatePlayers(tplayers, cfg.teamSize) = NoError) =>
        /\ runsArg.t = "undefined" => optInvoked /\ runs = 2 * cfg.defaultRuns
        /\ (runsArg.t = "number" /\ runsArg.v % 2 = 0 /\ runsArg.v >= 2
                /\ runsArg.v <= 2 * cfg.maxRuns) => optInvoked /\ runs = runsArg.v
        /\ (runsArg.t \notin {"undefined", "number"}
                \/ (runsArg.t = "number"
                    /\ (runsArg.v % 2 # 0 \/ runsArg.v < 2 \/ runsArg.v > 2 * cfg.maxRuns))) =>
              pc = "svc_threw" /\ ~optInvoked /\ RunCountError(error)
        /\ pc = "svc_returned" => svcResult.optimization_runs = runs

\* C10: two calls with the same input return the same output
C10_SameInputSameOutput ==
    (callNo = 2 /\ Returned /\ firstOutcome.error = NoError) => Outcome = firstOutcome

\* C11: optimizeTeams returns the final teams of the finished run with the lowest final
\* spread, and of the earliest such run when several runs end with that spread
C11_EarliestBestRunReturned ==
    (pc = "opt_returned" /\ runLog # <<>>) =>
        LET lowest == SetMin({runLog[k].adrDiff : k \in DOMAIN runLog})
            earliest == SetMin({k \in DOMAIN runLog : runLog[k].adrDiff = lowest})
        IN  /\ optResult.adrDiff = lowest
            /\ optResult.teams = runLog[earliest].teams

C11_Witness ==
    /\ pc = "opt_returned"
    /\ Len(runLog) = 2
    /\ runLog[1].adrDiff = runLog[2].adrDiff
    /\ runLog[1].teams # runLog[2].teams
    /\ optResult.teams = runLog[1].teams

\* C12: on a non-empty roster divisible by teamSize, with at least one run, optimizeTeams
\* never throws
C12_ValidInputNeverThrows ==
    (/\ entry = "optimizeTeams"
     /\ Len(players) > 0
     /\ Len(players) % teamSize = 0
     /\ runs >= 2
     /\ maxNoImprovement >= 0) => pc # "opt_threw"

\* C13: with teamSize 1 the spread of a run is the largest minus the smallest rating
\* of the roster before and after every swap attempt, no swap attempt is accepted, and
\* that spread is returned
RatingSpread ==
    SetMax({players[i].adr : i \in DOMAIN players}) - SetMin({players[i].adr : i \in DOMAIN players})

C13_SingletonSpread ==
    /\ []((teamSize = 1 /\ pc = "search") => adrDiff = RatingSpread)
    /\ []((teamSize = 1 /\ pc = "opt_returned" /\ runLog # <<>>) => optResult.adrDiff = RatingSpread)
    /\ [][(teamSize = 1 /\ pc = "search" /\ pc' = "search") =>
             /\ adrDiff' = adrDiff
             /\ noImprovement' = noImprovement + 1
             /\ teams' = teams]_vars

C13_Witness ==
    /\ teamSize = 1
    /\ pc = "opt_returned"
    /\ Len(players) = 3
    /\ maxNoImprovement = 2
    /\ Len(runLog) = 2
    /\ optResult.adrDiff = 3000

\* C14: optimizeTeams called with a roster length not divisible by teamSize, or with a
\* run count that is not positive, throws before any shuffle and before any teams are
\* built, and returns no result
C14_PreconditionRejected ==
    (/\ entry = "optimizeTeams"
     /\ pc # "opt_entry"
     /\ (Len(players) % teamSize # 0 \/ runs <= 0)) =>
        /\ pc = "opt_threw"
        /\ ~randUsed
        /\ teams = <<>>
        /\ optResult = NoResult

\* C15: the errors generateBalancedTeams throws for an empty roster, an indivisible
\* count, invalid ratings, a run count out of range and a timeout carry pairwise
\* different tags: the tag of a thrown error of one kind differs from the tag of the
\* errors of the other four kinds
ErrorKinds == {"empty", "count", "ratings", "runs", "timeout"}
ErrorKind(e) ==
    IF e.message = <<>> THEN "none"
    ELSE IF e.message[1] = "No players provided for team generation" THEN "empty"
    ELSE IF e.message[1] = "Player count (" THEN "count"
    ELSE IF e.message[1] \in {"Players missing ADR: ", "Players with invalid ADR values: "}
    THEN "ratings"
    ELSE IF e.message[1] \in {"Optimization runs must be a positive number", "Optimization runs ("}
    THEN "runs"
    ELSE IF e.message[1] = "Team generation timed out. " THEN "timeout"
    ELSE "other"
\* what a caller can test without reading the message: the class name and the code
ErrorTag(e) == <<e.name, e.code>>
SamplePlayer(adr) == [id |-> "id1", username |-> "user1", display_name |-> "", adr |-> adr]
SampleError(kind) ==
    CASE kind = "empty" -> validatePlayers(<<>>, DefaultTeamSize)
      [] kind = "count" -> validatePlayers(<<SamplePlayer(Num(5000))>>, DefaultTeamSize)
      [] kind = "ratings" -> validatePlayers(<<SamplePlayer(Num(-500))>>, 1)
      [] kind = "runs" -> validateRuns(Num(0), DefaultCfg).error
      [] kind = "timeout" -> TeamGenerationError(<<"Team generation timed out. ">>)

C15_ErrorKindsTagged ==
    (/\ entry = "generateBalancedTeams"
     /\ pc = "svc_threw"
     /\ ErrorKind(error) \in ErrorKinds) =>
        \A kind \in ErrorKinds \ {ErrorKind(error)} :
            /\ ErrorKind(SampleError(kind)) = kind
            /\ ErrorTag(error) # ErrorTag(SampleError(kind))

C17_CallerStateUntouched ==
    [][/\ tplayers' = tplayers
       /\ (entry = "optimizeTeams" => players' = players)
       /\ (callNo = 2 => firstOutcome' = firstOutcome)]_vars

C17_Witness ==
    /\ entry = "optimizeTeams"
    /\ callNo = 2
    /\ pc = "opt_returned"
    /\ Len(players) = 3
    /\ randUsed
    /\ firstOutcome.opt.teams # <<>>
    /\ optResult.teams # firstOutcome.opt.teams

\* C18: over calls of openTournament and closeTournament made one after the other, at
\* most one tournament is open; openTournament while one is open fails with
\* TOURNAMENT_ALREADY_OPEN and creates none; closeTournament while none is open fails
\* with NO_OPEN_TOURNAMENT and changes nothing
C18_AtMostOneOpen ==
    /\ [](Cardinality(getOpenTournament(tournaments)) <= 1)
    /\ [][((entry' = "openTournament" /\ getOpenTournament(tournaments) # {})
              => (error'.code = "TOURNAMENT_ALREADY_OPEN" /\ tournaments' = tournaments))
           /\ ((entry' = "closeTournament" /\ getOpenTournament(tournaments) = {})
              => (error'.code = "NO_OPEN_TOURNAMENT" /\ tournaments' = tournaments))]_vars

C18_Witness ==
    /\ entry = "openTournament"
    /\ error.code = "TOURNAMENT_ALREADY_OPEN"
    /\ Cardinality(tournaments) = 3
    /\ Cardinality(getOpenTournament(tournaments)) = 1

\* C19: while the teams of the open tournament are locked, a generateTeams call fails
\* with TEAMS_LOCKED without reading the players or calling the generator, and the
\* stored teams and their members stay as they are; once locked, the stored teams of
\* the tournament change only by unlockTeams
OpenTeamsLocked ==
    \E found \in getOpenTournament(tournaments) :
       \E row \in dbTeams : row.tournamentId = found.id /\ row.locked
C19_LockedTeamsKept ==
    /\ [][(OpenTeamsLocked /\ pc = "gen_entry")
             => /\ pc' = "gen_threw"
                /\ error'.code = "TEAMS_LOCKED"
                /\ tplayers' = <<>>
                /\ ~optInvoked'
                /\ dbTeams' = dbTeams
                /\ dbTeamPlayers' = dbTeamPlayers]_vars
    /\ [][(OpenTeamsLocked /\ (dbTeams' # dbTeams \/ dbTeamPlayers' # dbTeamPlayers))
             => entry' = "unlockTeams"]_vars
    /\ []((entry = "generateTeams" /\ pc \notin {"gen_entry", "gen_threw"}) => ~OpenTeamsLocked)

\* the teams the first call stored were locked, and the second call failed
C19_Witness ==
    /\ callNo = 2
    /\ pc = "gen_threw"
    /\ error.code = "TEAMS_LOCKED"
    /\ OpenTeamsLocked
    /\ \E row \in dbTeamPlayers : row.tournamentId = TodayId /\ row.playerId = "id1"

\* C20: after a createTeams(t, data) that returned, the teams and team players stored
\* for t are exactly those of data and all teams are unlocked; the call leaves the rows
\* of the other tournaments as they are; the same call made again leaves both tables
\* as they are
StoredTeams(tournamentId) == {row \in dbTeams : row.tournamentId = tournamentId}
StoredTeamPlayers(tournamentId) == {row \in dbTeamPlayers : row.tournamentId = tournamentId}
C20_IdempotentFullReplace ==
    /\ []((entry = "createTeams" /\ pc = "create_returned")
            => /\ StoredTeams(tournament.id)
                    = {TeamRow(tournament.id, teamData[t].id, FALSE) : t \in DOMAIN teamData}
               /\ StoredTeamPlayers(tournament.id)
                    = UNION {{TeamPlayerRow(tournament.id, teamData[t].id, teamData[t].players[k]) :
                                 k \in DOMAIN teamData[t].players} : t \in DOMAIN teamData})
    /\ [][(entry = "createTeams" /\ pc = "create_teams")
             => /\ dbTeams' \ StoredTeams(tournament.id)' = dbTeams \ StoredTeams(tournament.id)
                /\ dbTeamPlayers' \ StoredTeamPlayers(tournament.id)'
                     = dbTeamPlayers \ StoredTeamPlayers(tournament.id)]_vars
    /\ [][(entry = "createTeams" /\ pc = "create_teams" /\ callNo = 2)
             => /\ pc' = "create_returned"
                /\ dbTeams' = dbTeams
                /\ dbTeamPlayers' = dbTeamPlayers]_vars

\* the second of two equal calls has returned; they replaced the two locked teams of
\* the earlier tournament by one team, and the locked teams of today are still stored
C20_Witness ==
    /\ entry = "createTeams"
    /\ pc = "create_returned"
    /\ callNo = 2
    /\ tournament.id = EarlierId
    /\ Len(teamData) = 1
    /\ StoredTeams(TodayId) # {}
    /\ \A row \in StoredTeams(TodayId) : row.locked

\* C25: a swap attempt that is rejected leaves every team, with its members, their
\* positions and its total, and the spread of the run as they were and adds one to the
\* count of attempts without improvement; an accepted attempt makes the new, strictly
\* smaller spread the spread of the run and sets the count to 0
C25_RejectedSwapReverted ==
    [][(pc = "search" /\ pc' = "search")
         => \/ /\ teams' = teams
               /\ adrDiff' = adrDiff
               /\ noImprovement' = noImprovement + 1
            \/ /\ teams' # teams
               /\ adrDiff' = Spread(teams')
               /\ adrDiff' < adrDiff
               /\ noImprovement' = 0]_vars

\* in the first run a swap was accepted and the attempt after it rejected
C25_Witness ==
    /\ pc = "search"
    /\ run = 0
    /\ adrDiff < firstDiff
    /\ noImprovement = 1

\* C26: wherever the total of a team is read (the spread after the placement, after a
\* swap attempt, the copy into the best result), the total of every team is the sum of
\* the ratings of its members
C26_TotalIsSumOfMembers ==
    /\ \A t \in DOMAIN teams : teams[t].totalAdr = SumAdr(teams[t].players)
    /\ \A t \in DOMAIN bestTeams : bestTeams[t].totalAdr = SumAdr(bestTeams[t].players)
    /\ \A t \in DOMAIN optResult.teams :
          optResult.teams[t].totalAdr = SumAdr(optResult.teams[t].players)

\* a result of two or more teams of different totals, found by an accepted swap
C26_Witness ==
    /\ pc = "opt_returned"
    /\ Len(optResult.teams) >= 2
    /\ optResult.adrDiff > 0
    /\ optResult.adrDiff < firstDiff

\* C23: generateTournamentId(date) returns the id of the date with the smallest number
\* from 1 on that no tournament of the date has: no tournament has the id returned, and
\* every smaller number is taken; a tournament created under it is a new row
C23_SmallestFreeSequence ==
    /\ [](pc = "id_generated"
            => /\ tournament.id.date = args.date
               /\ parseInt(tournament.id.sequence) >= 1
               /\ tournament.id = TournamentId(args.date, parseInt(tournament.id.sequence))
               /\ \A row \in tournaments : row.id # tournament.id
               /\ \A n \in 1 .. (parseInt(tournament.id.sequence) - 1) :
                     \E row \in tournaments : row.id = TournamentId(args.date, n))
    /\ [][pc = "id_generated"
            => /\ error' = NoError
               /\ Cardinality(tournaments') = Cardinality(tournaments) + 1]_vars

\* the gap at 10 is filled while 11 is taken
C23_Witness ==
    /\ pc = "id_generated"
    /\ tournament.id = TournamentId("2025-08-30", 10)
    /\ \E row \in tournaments : row.id = TournamentId("2025-08-30", 11)

\* C27: a createTeams call that fails leaves the teams and the team players stored for
\* the tournament as they were before the call
C27_FailedCreateKeepsTeams ==
    [][(pc = "create_teams" /\ pc' = "create_threw")
         => /\ StoredTeams(tournament.id)' = StoredTeams(tournament.id)
            /\ StoredTeamPlayers(tournament.id)' = StoredTeamPlayers(tournament.id)]_vars

\* C24: on an open tournament recordMatch creates a match only for a well-formed string
\* that names two different teams of the tournament; a malformed string fails with
\* INVALID_MATCH_FORMAT before the teams are looked up, a string naming one team twice
\* with SAME_TEAM_MATCH, a string naming a team the tournament has not with
\* TEAMS_NOT_FOUND, and none of the three creates a match
C24_OnlyValidMatchesRecorded ==
    [][(entry' = "recordMatch" /\ getOpenTournament(tournaments) # {})
         => /\ args'.matchString \in MalformedStrings
                 => /\ error'.code = "INVALID_MATCH_FORMAT"
                    /\ ~args'.teamLookup
                    /\ matches' = matches
            /\ args'.matchString \in SameTeamStrings
                 => /\ error'.code = "SAME_TEAM_MATCH"
                    /\ matches' = matches
            /\ args'.matchString \in MissingTeamStrings
                 => /\ error'.code = "TEAMS_NOT_FOUND"
                    /\ matches' = matches
            /\ matches' # matches
                 => /\ args'.matchString \in RecordableStrings
                    /\ error' = NoError
                    /\ matches' = matches \cup {result'}
                    /\ result'.tournamentId = tournament'.id
                    /\ {result'.team1Id, result'.team2Id} = {"TEAM1", "TEAM2"}]_vars

\* a match is recorded, and the call after it named TEAM3, which only the earlier
\* tournament has
C24_Witness ==
    /\ entry = "recordMatch"
    /\ Cardinality(matches) = 1
    /\ error.code = "TEAMS_NOT_FOUND"
    /\ args.matchString = <<"T", "E", "A", "M", "1", "-", "1", "6", "-", "1", "4", "-", "T", "E", "A", "M", "3">>

\* C22: every submitPlayerAdr of a player between a successful lockPlayerAdr for the
\* player and the next unlockPlayerAdr or admin submission for the player fails with
\* ADR_LOCKED and writes neither the players row nor the tournament_players row
C22_LockedUntilUnlocked ==
    [][(entry' = "submitPlayerAdr" /\ args'.playerId \in adrLocks)
         => /\ error'.code = "ADR_LOCKED"
            /\ UNCHANGED <<playerTable, tournamentPlayers>>]_vars

\* the part of C22 about the stored flag: a submitPlayerAdr of a player whose row in
\* the open tournament has adrLocked set fails with ADR_LOCKED and writes nothing
LockedRowRejects ==
    [][(/\ entry' = "submitPlayerAdr"
        /\ \E found \in getOpenTournament(tournaments) :
              isPlayerAdrLocked(tournamentPlayers, found.id, args'.playerId))
         => /\ error'.code = "ADR_LOCKED"
            /\ UNCHANGED <<playerTable, tournamentPlayers>>]_vars

\* the teams a player of the open tournament is on, and the members of a team
TeamsOf(teamPlayerRows, playerId) ==
    {row.teamId : row \in {r \in teamPlayerRows : r.tournamentId = TodayId /\ r.playerId = playerId}}
MembersOf(teamPlayerRows, teamId) ==
    {row.playerId : row \in {r \in teamPlayerRows : r.tournamentId = TodayId /\ r.teamId = teamId}}

\* C28: a successful exchangePlayers(p1, p2) puts p1 on the team p2 was on and p2 on the
\* team p1 was on, leaves the rows of every other player and the size of every team as
\* they were, and returns the teams the two players are on afterwards; when the two are
\* on the same team, or one is not in the tournament or on no team, the call fails and
\* no row of team_players changes
C28_ExchangeSwapsTwoPlayers ==
    [][entry' = "exchangePlayers"
         => LET p1 == args'.player1Id
                p2 == args'.player2Id
                in1 == isPlayerInTournament(tournamentPlayers, TodayId, p1)
                in2 == isPlayerInTournament(tournamentPlayers, TodayId, p2)
            IN  /\ error' = NoError
                     => /\ Cardinality(TeamsOf(dbTeamPlayers, p1)) = 1
                        /\ Cardinality(TeamsOf(dbTeamPlayers, p2)) = 1
                        /\ TeamsOf(dbTeamPlayers', p1) = TeamsOf(dbTeamPlayers, p2)
                        /\ TeamsOf(dbTeamPlayers', p2) = TeamsOf(dbTeamPlayers, p1)
                        /\ TeamsOf(dbTeamPlayers, p1) # TeamsOf(dbTeamPlayers, p2)
                        /\ {row \in dbTeamPlayers' : row.playerId \notin {p1, p2}}
                             = {row \in dbTeamPlayers : row.playerId \notin {p1, p2}}
                        /\ \A row \in dbTeamPlayers \cup dbTeamPlayers' :
                              Cardinality(MembersOf(dbTeamPlayers', row.teamId))
                                = Cardinality(MembersOf(dbTeamPlayers, row.teamId))
                        /\ TeamsOf(dbTeamPlayers', p1) = {result'.player1Team}
                        /\ TeamsOf(dbTeamPlayers', p2) = {result'.player2Team}
                /\ (\/ ~in1
                    \/ ~in2
                    \/ TeamsOf(dbTeamPlayers, p1) = {}
                    \/ TeamsOf(dbTeamPlayers, p2) = {}
                    \/ TeamsOf(dbTeamPlayers, p1) = TeamsOf(dbTeamPlayers, p2))
                     => /\ error' # NoError
                        /\ dbTeamPlayers' = dbTeamPlayers]_vars

\* id1 and id6 have been exchanged between TEAM1 and TEAM2, five members each
C28_Witness ==
    /\ entry = "exchangePlayers"
    /\ error = NoError
    /\ args = [player1Id |-> "id1", player2Id |-> "id6"]
    /\ result.player1Team # result.player2Team
    /\ TeamsOf(dbTeamPlayers, "id1") = {result.player1Team}
    /\ Cardinality(MembersOf(dbTeamPlayers, "TEAM1")) = 5
    /\ Cardinality(MembersOf(dbTeamPlayers, "TEAM2")) = 5

\* an exchange refused because both players are on one team
C28_SameTeamRefused ==
    /\ entry = "exchangePlayers"
    /\ error.code = "PLAYERS_SAME_TEAM"
    /\ args.player1Id # args.player2Id

\* C30: with pairwise distinct display names, in every state that generateTeams,
\* addPlayerToTeam, exchangePlayers and leaveTournament (and joinTournament) lead to,
\* every player of the open tournament is on at most one team, every player on a team
\* is in the tournament, and no team has more than 5 members
C30_TeamsWellFormed ==
    \A found \in getOpenTournament(tournaments) :
       LET rows == {row \in dbTeamPlayers : row.tournamentId = found.id}
       IN  /\ \A r1, r2 \in rows : r1.playerId = r2.playerId => r1 = r2
           /\ \A row \in rows : \E k \in DOMAIN tournamentPlayers :
                 /\ tournamentPlayers[k].tournamentId = found.id
                 /\ tournamentPlayers[k].playerId = row.playerId
           /\ \A row \in rows :
                 Cardinality({r \in rows : r.teamId = row.teamId}) <= 5

\* after a generation, a leave and a join, id11 has been added to a team that has five
\* members again
C30_Witness ==
    /\ entry = "addPlayerToTeam"
    /\ error = NoError
    /\ \E teamId \in TeamsOf(dbTeamPlayers, "id11") :
          Cardinality(MembersOf(dbTeamPlayers, teamId)) = 5
    /\ Cardinality({row \in dbTeamPlayers : row.tournamentId = TodayId}) = 9

\* C21: when two createTeams calls for one tournament with the same data have run with
\* their statements interleaved in any order, at least one of them has returned, and
\* the tournament has exactly the teams of the data, each with all its members
C21_OverlappingCreateTeams ==
    BothSettled
       => /\ \E i \in ProcIds : procs[i].pc = "returned"
          /\ {row.id : row \in StoredTeams(args.tournamentId)}
               = {args.teamData[t].id : t \in DOMAIN args.teamData}
          /\ \A t \in DOMAIN args.teamData :
                {row.playerId : row \in {r \in StoredTeamPlayers(args.tournamentId) :
                                            r.teamId = args.teamData[t].id}}
                  = {args.teamData[t].players[k] : k \in DOMAIN args.teamData[t].players}
          /\ \A row \in StoredTeamPlayers(args.tournamentId) :
                \E t \in DOMAIN args.teamData : args.teamData[t].id = row.teamId

\* two calls with two teams of two players on a tournament that had teams: one call
\* has thrown, the other has returned
C21_Witness ==
    /\ BothSettled
    /\ \E i \in ProcIds : procs[i].pc = "threw"
    /\ \E i \in ProcIds : procs[i].pc = "returned"
    /\ Len(args.teamData) = 2
    /\ Cardinality(StoredTeamPlayers(args.tournamentId)) = 4

\* both calls have returned
C21_BothReturned ==
    /\ BothSettled
    /\ \A i \in ProcIds : procs[i].pc = "returned"
    /\ Cardinality(StoredTeamPlayers(args.tournamentId)) = 4

\* C29: at most one tournament is open at any time, also while two openTournament
\* calls overlap, however their steps are interleaved
C29_OneOpenWhileOverlapping ==
    Cardinality(getOpenTournament(tournaments)) <= 1

\* two overlapping calls whose inserts were given the same id: the second insert fails
C29_SameIdRefused ==
    /\ pc = "opening"
    /\ \E i \in ProcIds : procs[i].pc = "returned"
    /\ \E i \in ProcIds : procs[i].pc = "threw" /\ procs[i].error.code = "TOURNAMENT_OPEN_FAILED"

====
